---------------------------- MODULE Spec2Model ----------------------------
(***************************************************************************)
(* A model of the OKI entity-component runtime:                            *)
(*   - the handle generators            (oki/util/oki_handle_gen.h)        *)
(*   - the sorted association table and the k-way set intersection         *)
(*                                       (oki/util/oki_container.h)        *)
(*   - the ComponentManager              (oki/oki_component.h)             *)
(*                                                                         *)
(*   - the type-erased value holders     (oki/util/oki_type_erasure.h)     *)
(*   - the SystemManager                 (oki/oki_system.h)                *)
(*   - the SubjectPipe and SignalManager (oki/oki_observer.h)              *)
(*                                                                         *)
(* The specifications of the module:                                       *)
(*   HandleSpec  one handle generator of a kind chosen at construction     *)
(*   Spec        one ComponentManager                                      *)
(*   IsectSpec   variadic_set_intersection applied to drawn tables         *)
(*   ViewSpec    one ComponentManager and a ComponentView obtained from it *)
(*   ErasedSpec  ErasedType holders of one payload type                    *)
(*   RawSpec     the same, with holders left as default-constructed        *)
(*   SysSpec     one SystemManager and the systems it steps                *)
(*   SysLiveSpec the same, where a step() or run() in progress goes on     *)
(*   PipeSpec    one SubjectPipe and the observers connected to it         *)
(*   SignalSpec  one SignalManager with observers of two subjects          *)
(*   VectorSpec  one AssocSortedVector filled through its five insertions  *)
(*   UncheckedSpec  a ComponentManager with bind_component_unchecked       *)
(*   IsectLoopSpec  variadic_set_intersection taken one step_iter_pair at  *)
(*               a time; a call in progress goes on                        *)
(***************************************************************************)
EXTENDS Integers, Sequences, FiniteSets, TLC

VARIABLES
    \* ---- handle generator under test (HandleSpec) ----
    kind,             \* which generator class is instantiated
    counter_,         \* LinearHandleGenerator::counter_ (embedded in all kinds)
    deletedHandles_,  \* ReuseHandleGenerator::deletedHandles_ (front = index 1)
    invalidHandles_,  \* DebugHandleGenerator::invalidHandles_
    live,             \* history: returned by create since the last reset and
                      \*          not passed to destroy since
    misused,          \* history: handles passed to destroy while not live
    destroyed,        \* history: handles whose destroy returned true since
                      \*          the last reset
    given,            \* history: handles create returned since the last reset
    retired,          \* history (Reuse): handles passed to destroy and not
                      \*          returned by create since, oldest first
    fresh,            \* history: only create has been called since construction
    issued,           \* history: while fresh, the handles create returned
    hLast,            \* history: the last call and its result
    hPrev,            \* history: the call before it
    \* ---- ComponentManager (Spec) ----
    data_,            \* ComponentManager::data_ : type |-> table
    handGen_,         \* ComponentManager::handGen_ (its counter_)
    bound,            \* history: the <<type, entity>> pairs for which a
                      \*          component was bound and not removed or
                      \*          cleared since
    lastOp,           \* history: the last call and its result
    \* ---- variadic_set_intersection (IsectSpec) ----
    tabs,             \* the tables handed to the algorithm
    isPc,             \* "ready" | "done"
    isRes,            \* the result of the run
    \* ---- ComponentView (ViewSpec) ----
    view,             \* the ComponentView the caller holds
    \* ---- ErasedType holders (ErasedSpec, RawSpec) ----
    small,            \* is_small_buffered<Type>: the payload is stored inline
    holders,          \* the holders: lifetime, storage_ (the payload object
                      \*          it designates), whether budgetVtable_ is set
    objects,          \* the payload objects constructed so far: value_ and
                      \*          history: how often each was destroyed
    eLast,            \* history: the last call and its result
    \* ---- SystemManager (SysSpec) ----
    systems_,         \* SystemManager::systems_ (front = index 1)
    handleGen_,       \* SystemManager::handleGen_ (its counter_)
    sysIter,          \* step(): the position of sysIter (0: no step() runs)
    inRun,            \* run() is in progress
    trace,            \* history: the systems stepped by the current step()
                      \*          call, or by the last one
    stepStart,        \* history: the handles registered when that step()
                      \*          call began
    registered,       \* history: the handles add returned that were not
                      \*          removed since
    sLast,            \* history: the last call and its result
    \* ---- SubjectPipe (PipeSpec) ----
    observers_,       \* SubjectPipe::observers_ : handle |-> observer
    pipeGen_,         \* SubjectPipe::handGen_ (its counter_)
    connected,        \* history: the connections made and not undone since,
                      \*          each an observer and the handle connect
                      \*          returned for it
    gone,             \* history: the observers disconnected so far and how
    earlier,          \* history: the greatest handle connect returned
                      \*          before the last disconnect_all (0: none)
    pLast,            \* history: the last call and its result
    \* ---- SignalManager (SignalSpec) ----
    sigData_,         \* SignalManager::data_ : subject |-> its SubjectPipe
    sigConnected,     \* history: the connections made and not undone since,
                      \*          each a subject, an observer and the handle
    mLast,            \* history: the last call and its result
    \* ---- AssocSortedVector (VectorSpec) ----
    vec,              \* AssocSortedVector::data_
    vLast,            \* history: the last call, the vector before it and
                      \*          the key comparisons its binary search made
    \* ---- variadic_set_intersection, step by step (IsectLoopSpec) ----
    isCur,            \* iterPairs.first... : the cursor of each table
    isMax,            \* max, the candidate key
    isIdx,            \* the pair step_iter_pair is called on next; one more
                      \* than the number of pairs when status is tested next
    isStatus          \* the least status of the pairs stepped in this round

hvars == <<kind, counter_, deletedHandles_, invalidHandles_,
           live, misused, destroyed, given, retired, fresh, issued,
           hLast, hPrev>>
cvars == <<data_, handGen_, bound, lastOp>>
ivars == <<tabs, isPc, isRes>>
wvars == <<view>>
evars == <<small, holders, objects, eLast>>
svars == <<systems_, handleGen_, sysIter, inRun, trace, stepStart,
           registered, sLast>>
pvars == <<observers_, pipeGen_, connected, gone, earlier, pLast>>
mvars == <<sigData_, sigConnected, mLast>>
vvars == <<vec, vLast>>
lvars == <<isCur, isMax, isIdx, isStatus>>
yvars == <<evars, svars, pvars, mvars, vvars, lvars>>
xvars == <<wvars, yvars>>
vars  == <<hvars, cvars, ivars, xvars>>

-----------------------------------------------------------------------------
(* Bounds of the model.                                                    *)

\* HandleSpec: create is not called once counter_ has reached MaxHandle.
MaxHandle == 4
\* HandleSpec: destroy is not called on a Reuse pool of MaxPool entries.
MaxPool == 2
\* Spec: create_entity is not called once handGen_ has reached MaxEntity.
MaxEntity == 3
\* IsectSpec: keys of the drawn tables are in 0..MaxKey.
MaxKey == 2
\* IsectLoopSpec: at most MaxLoopTables tables are intersected.
MaxLoopTables == 2
\* IsectSpec: at most MaxTables tables are intersected.
MaxTables == 3

\* ErasedSpec, RawSpec: at most MaxHolders holders are constructed.
MaxHolders == 3

\* SysSpec: at most MaxSystems systems are added.
MaxSystems == 2

\* PipeSpec: connect is not called once handGen_ has reached MaxConnects.
MaxConnects == 3

\* SignalSpec: connect is not called on a pipe whose handGen_ has reached
\* MaxSignals.
MaxSignals == 2

\* VectorSpec: the unchecked insertions are not called on a vector of
\* MaxRows pairs.  UncheckedSpec: bind_component_unchecked is not called
\* when the tables hold MaxRows components in all.
MaxRows == 3

\* Component types and component values of the model.
Types  == {"int", "float"}
Values == [int |-> {"v0", "v1"}, float |-> {"v0"}]

-----------------------------------------------------------------------------
(* oki/oki_handle.h                                                        *)

get_invalid_handle_constant == 0

get_first_valid_handle == 1

is_bad_handle(handle) == handle = get_invalid_handle_constant

\* advance(counter): yields the counter's value and steps the counter.
advance(counter) == [ret |-> counter, counter |-> counter + 1]

-----------------------------------------------------------------------------
(* oki/util/oki_handle_gen.h                                               *)

Kinds == {"Linear", "Reuse", "Debug"}

\* create_handle that hands the counter out without consuming it
LinearCreateHandleNoAdvance(counter) ==
    [ret |-> counter, counter |-> counter]

LinearCreateHandle(counter) == advance(counter)

LinearDestroyHandle(handle) == TRUE

\* reset() that rewinds the counter to the invalid constant
LinearResetToInvalid == get_invalid_handle_constant

LinearReset == get_first_valid_handle

\* verify_handle without the is_bad_handle test
LinearVerifyHandleNoBadCheck(counter, handle) == handle < counter

LinearVerifyHandle(counter, handle) ==
    /\ ~is_bad_handle(handle)
    /\ handle < counter

\* destroy_handle that ignores whether the insertion took place
DebugDestroyHandleNoInsertCheck(counter, invalid, handle) ==
    IF LinearVerifyHandle(counter, handle)
        THEN [ret |-> TRUE,  invalid |-> invalid \cup {handle}]
        ELSE [ret |-> FALSE, invalid |-> invalid]

\* DebugHandleGenerator::destroy_handle: the returned value and
\* invalidHandles_ afterwards
DebugDestroyHandle(counter, invalid, handle) ==
    IF LinearVerifyHandle(counter, handle) /\ handle \notin invalid
        THEN [ret |-> TRUE,  invalid |-> invalid \cup {handle}]
        ELSE [ret |-> FALSE, invalid |-> invalid]

DebugVerifyHandle(counter, invalid, handle) ==
    /\ LinearVerifyHandle(counter, handle)
    /\ handle \notin invalid

\* create_handle that reads the front of the pool without popping it
ReuseCreateHandleNoPop(counter, deleted) ==
    IF deleted # <<>>
        THEN [ret |-> Head(deleted), counter |-> counter, deleted |-> deleted]
        ELSE [ret |-> advance(counter).ret,
              counter |-> advance(counter).counter,
              deleted |-> deleted]

\* create_handle that never looks at the pool
ReuseCreateHandleNoPool(counter, deleted) ==
    [ret |-> advance(counter).ret,
     counter |-> advance(counter).counter,
     deleted |-> deleted]

\* ReuseHandleGenerator::create_handle
ReuseCreateHandle(counter, deleted) ==
    IF deleted # <<>>
        THEN [ret |-> Head(deleted), counter |-> counter,
              deleted |-> Tail(deleted)]
        ELSE [ret |-> LinearCreateHandle(counter).ret,
              counter |-> LinearCreateHandle(counter).counter,
              deleted |-> deleted]

\* destroy_handle that puts the handle at the back of the pool
ReuseDestroyHandlePushBack(deleted, handle) ==
    [ret |-> TRUE, deleted |-> Append(deleted, handle)]

\* destroy_handle that turns the invalid constant away
ReuseDestroyHandleRejectingBad(deleted, handle) ==
    IF is_bad_handle(handle)
        THEN [ret |-> FALSE, deleted |-> deleted]
        ELSE [ret |-> TRUE, deleted |-> <<handle>> \o deleted]

\* ReuseHandleGenerator::destroy_handle (push_front; the allocation is taken
\* to succeed)
ReuseDestroyHandle(deleted, handle) ==
    [ret |-> TRUE, deleted |-> <<handle>> \o deleted]

\* verify_handle that does not search the pool
ReuseVerifyHandleIgnoringPool(counter, deleted, handle) ==
    LinearVerifyHandle(counter, handle)

ReuseVerifyHandle(counter, deleted, handle) ==
    /\ LinearVerifyHandle(counter, handle)
    /\ \A i \in 1..Len(deleted) : deleted[i] # handle

\* verify_handle of the generator under test
VerifyHandle(handle) ==
    CASE kind = "Linear" -> LinearVerifyHandle(counter_, handle)
      [] kind = "Debug"  -> DebugVerifyHandle(counter_, invalidHandles_, handle)
      [] kind = "Reuse"  -> ReuseVerifyHandle(counter_, deletedHandles_, handle)

NoCall == [op |-> "none", arg |-> 0, ret |-> 0, ok |-> FALSE]

HandleArgs == 0..MaxHandle

HInit ==
    /\ kind \in Kinds
    /\ counter_ = get_first_valid_handle
    /\ deletedHandles_ = <<>>
    /\ invalidHandles_ = {}
    /\ live = {}
    /\ misused = {}
    /\ destroyed = {}
    /\ given = {}
    /\ retired = <<>>
    /\ fresh = TRUE
    /\ issued = <<>>
    /\ hLast = NoCall
    /\ hPrev = NoCall

\* create_handle() of the generator under test
CreateHandle ==
    /\ \/ counter_ < MaxHandle
       \/ kind = "Reuse" /\ deletedHandles_ # <<>>
    /\ LET r == IF kind = "Reuse"
                    THEN ReuseCreateHandle(counter_, deletedHandles_)
                    ELSE [ret |-> LinearCreateHandle(counter_).ret,
                          counter |-> LinearCreateHandle(counter_).counter,
                          deleted |-> deletedHandles_]
       IN  /\ counter_' = r.counter
           /\ deletedHandles_' = r.deleted
           /\ live' = live \cup {r.ret}
           /\ given' = given \cup {r.ret}
           /\ retired' = SelectSeq(retired, LAMBDA h : h # r.ret)
           /\ issued' = IF fresh THEN Append(issued, r.ret) ELSE issued
           /\ hLast' = [op |-> "create", arg |-> 0, ret |-> r.ret, ok |-> TRUE]
    /\ hPrev' = hLast
    /\ UNCHANGED <<kind, invalidHandles_, misused, destroyed, fresh,
                   cvars, ivars, xvars>>

\* destroy_handle(handle) of the generator under test
DestroyHandle ==
    \E handle \in HandleArgs :
        /\ Len(deletedHandles_) < MaxPool
        /\ LET ok == CASE kind = "Linear" -> LinearDestroyHandle(handle)
                       [] kind = "Debug"  ->
                            DebugDestroyHandle(counter_, invalidHandles_, handle).ret
                       [] kind = "Reuse"  ->
                            ReuseDestroyHandle(deletedHandles_, handle).ret
           IN  /\ hLast' = [op |-> "destroy", arg |-> handle, ret |-> 0,
                             ok |-> ok]
               /\ destroyed' = IF ok THEN destroyed \cup {handle}
                                      ELSE destroyed
        /\ invalidHandles_' =
              IF kind = "Debug"
                  THEN DebugDestroyHandle(counter_, invalidHandles_, handle).invalid
                  ELSE invalidHandles_
        /\ deletedHandles_' =
              IF kind = "Reuse"
                  THEN ReuseDestroyHandle(deletedHandles_, handle).deleted
                  ELSE deletedHandles_
        /\ live' = live \ {handle}
        /\ misused' = IF handle \in live THEN misused ELSE misused \cup {handle}
        /\ retired' = IF kind = "Reuse" THEN Append(retired, handle)
                                         ELSE retired
        /\ fresh' = FALSE
        /\ issued' = <<>>
        /\ hPrev' = hLast
        /\ UNCHANGED <<kind, counter_, given, cvars, ivars, xvars>>

\* reset() of the generator under test
ResetHandles ==
    /\ counter_' = LinearReset
    /\ deletedHandles_' = <<>>
    /\ invalidHandles_' = {}
    /\ live' = {}
    /\ misused' = {}
    /\ destroyed' = {}
    /\ given' = {}
    /\ retired' = <<>>
    /\ fresh' = FALSE
    /\ issued' = <<>>
    /\ hLast' = [op |-> "reset", arg |-> 0, ret |-> 0, ok |-> TRUE]
    /\ hPrev' = hLast
    /\ UNCHANGED <<kind, cvars, ivars, xvars>>

HNext ==
    \/ CreateHandle
    \/ DestroyHandle
    \/ ResetHandles

-----------------------------------------------------------------------------
(* oki/util/oki_container.h : AssocSortedVector                            *)
(* A table is a sequence of <<key, value>> pairs (the vector data_).       *)

KeyOf(pair) == pair[1]
ValOf(pair) == pair[2]

KeysOf(table) == [i \in 1..Len(table) |-> KeyOf(table[i])]

KeySet(table) == {KeyOf(table[i]) : i \in 1..Len(table)}

InsertAt(table, i, pair) ==
    SubSeq(table, 1, i - 1) \o <<pair>> \o SubSeq(table, i, Len(table))

RemoveAt(table, i) ==
    SubSeq(table, 1, i - 1) \o SubSeq(table, i + 1, Len(table))

\* std::lower_bound over [first, first + count): the binary search as the
\* standard library runs it.  Positions are 1-based; Len(table) + 1 is end().
RECURSIVE LowerBound(_, _, _, _)
LowerBound(table, key, first, count) ==
    IF count <= 0 THEN first
    ELSE LET step == count \div 2
             it   == first + step
         IN  IF KeyOf(table[it]) < key
                 THEN LowerBound(table, key, it + 1, count - (step + 1))
                 ELSE LowerBound(table, key, first, step)

\* find_key_(key) over the whole vector
find_key_(table, key) == LowerBound(table, key, 1, Len(table))

\* find_key_maybe_max_(key)
find_key_maybe_max_(table, key) ==
    IF table = <<>> \/ KeyOf(table[Len(table)]) < key
        THEN Len(table) + 1
        ELSE find_key_(table, key)

check_key_iter_(table, key, iter) ==
    /\ iter # Len(table) + 1
    /\ KeyOf(table[iter]) = key

\* try_insert_impl_<ASSIGN>(key, args): the vector afterwards, the returned
\* iterator and the returned flag
try_insert_impl_(assign, table, key, value) ==
    LET iter == find_key_(table, key)
    IN  IF check_key_iter_(table, key, iter)
            THEN [table |-> IF assign
                                THEN [table EXCEPT ![iter] = <<key, value>>]
                                ELSE table,
                  iter |-> iter, inserted |-> FALSE]
            ELSE [table |-> InsertAt(table, iter, <<key, value>>),
                  iter |-> iter, inserted |-> TRUE]

\* emplace whose fast path also takes a key equal to the maximum
emplaceAppendOnEqual(table, key, value) ==
    IF table = <<>> \/ KeyOf(table[Len(table)]) <= key
        THEN [table |-> Append(table, <<key, value>>),
              iter |-> Len(table) + 1, inserted |-> TRUE]
        ELSE try_insert_impl_(FALSE, table, key, value)

\* emplace that falls back to the assigning insertion
emplaceAssigning(table, key, value) ==
    IF table = <<>> \/ KeyOf(table[Len(table)]) < key
        THEN [table |-> Append(table, <<key, value>>),
              iter |-> Len(table) + 1, inserted |-> TRUE]
        ELSE try_insert_impl_(TRUE, table, key, value)

\* emplace(key, args...) and insert(key, value)
emplace(table, key, value) ==
    IF table = <<>> \/ KeyOf(table[Len(table)]) < key
        THEN [table |-> Append(table, <<key, value>>),
              iter |-> Len(table) + 1, inserted |-> TRUE]
        ELSE try_insert_impl_(FALSE, table, key, value)

\* insert_or_assign that uses the non-assigning insertion
insert_or_assignNoAssign(table, key, value) ==
    try_insert_impl_(FALSE, table, key, value)

\* insert_or_assign(key, value)
insert_or_assign(table, key, value) ==
    try_insert_impl_(TRUE, table, key, value)

\* erase without the check_key_iter_ test
eraseUnchecked(table, key) ==
    LET iter == LowerBound(table, key, 1, Len(table))
    IN  IF iter = Len(table) + 1
            THEN [table |-> table, ret |-> FALSE]
            ELSE [table |-> RemoveAt(table, iter), ret |-> TRUE]

\* erase(key): the vector afterwards and the returned flag
erase(table, key) ==
    LET iter == find_key_(table, key)
    IN  IF ~check_key_iter_(table, key, iter)
            THEN [table |-> table, ret |-> FALSE]
            ELSE [table |-> RemoveAt(table, iter), ret |-> TRUE]

\* find without the check_key_iter_ test
findUnchecked(table, key) == LowerBound(table, key, 1, Len(table))

\* find(key): the position of the pair, Len(table) + 1 (end()) if absent
find(table, key) ==
    LET iter == find_key_(table, key)
    IN  IF check_key_iter_(table, key, iter) THEN iter ELSE Len(table) + 1

contains(table, key) == check_key_iter_(table, key, find_key_(table, key))

\* insert(key, value): emplace(key, value)
insert(table, key, value) == emplace(table, key, value)

\* emplace_unchecked that puts the pair at the end of the vector
emplace_uncheckedAtEnd(table, key, value) ==
    [table |-> Append(table, <<key, value>>), iter |-> Len(table) + 1]

\* emplace_unchecked(key, args...): the vector afterwards and the returned
\* iterator
emplace_unchecked(table, key, value) ==
    LET iter == find_key_maybe_max_(table, key)
    IN  [table |-> InsertAt(table, iter, <<key, value>>), iter |-> iter]

\* insert_unchecked(key, value): emplace_unchecked(key, value)
insert_unchecked(table, key, value) == emplace_unchecked(table, key, value)

\* The key comparisons std::lower_bound makes over [first, first + count)
RECURSIVE LowerBoundProbes(_, _, _, _)
LowerBoundProbes(table, key, first, count) ==
    IF count <= 0 THEN 0
    ELSE LET step == count \div 2
             it   == first + step
         IN  1 + (IF KeyOf(table[it]) < key
                      THEN LowerBoundProbes(table, key, it + 1,
                                            count - (step + 1))
                      ELSE LowerBoundProbes(table, key, first, step))

\* The key comparisons of the binary search in find_key_(key)
find_key_Probes(table, key) == LowerBoundProbes(table, key, 1, Len(table))

\* find_key_maybe_max_ that always runs the binary search
find_key_maybe_max_ProbesSearching(table, key) ==
    LowerBoundProbes(table, key, 1, Len(table))

\* The key comparisons of the binary search in find_key_maybe_max_(key)
find_key_maybe_max_Probes(table, key) ==
    IF table = <<>> \/ KeyOf(table[Len(table)]) < key
        THEN 0
        ELSE find_key_Probes(table, key)

\* The key comparisons of the binary search in emplace(key, args...)
emplaceProbes(table, key) ==
    IF table = <<>> \/ KeyOf(table[Len(table)]) < key
        THEN 0
        ELSE find_key_Probes(table, key)

\* The key comparisons of the binary search in insert_or_assign(key, value),
\* which goes to try_insert_impl_ at once
insert_or_assignProbes(table, key) == find_key_Probes(table, key)

\* The keys and values VectorSpec inserts
VectorKeys == 0..MaxKey
VectorValues == {"v0", "v1"}

\* The last call: none yet
NoVectorOp == [op |-> "none", key |-> 0, value |-> "v0", probes |-> 0,
               before |-> <<>>]

vrest == <<hvars, cvars, ivars, wvars, evars, svars, pvars, mvars, lvars>>

\* emplace(key, value)
VectorEmplace ==
    /\ \E key \in VectorKeys, value \in VectorValues :
           /\ vec' = emplace(vec, key, value).table
           /\ vLast' = [op |-> "emplace", key |-> key, value |-> value,
                        probes |-> emplaceProbes(vec, key), before |-> vec]
    /\ UNCHANGED vrest

\* insert(key, value)
VectorInsert ==
    /\ \E key \in VectorKeys, value \in VectorValues :
           /\ vec' = insert(vec, key, value).table
           /\ vLast' = [op |-> "insert", key |-> key, value |-> value,
                        probes |-> emplaceProbes(vec, key), before |-> vec]
    /\ UNCHANGED vrest

\* insert_or_assign(key, value)
VectorInsertOrAssign ==
    /\ \E key \in VectorKeys, value \in VectorValues :
           /\ vec' = insert_or_assign(vec, key, value).table
           /\ vLast' = [op |-> "insert_or_assign", key |-> key,
                        value |-> value,
                        probes |-> insert_or_assignProbes(vec, key),
                        before |-> vec]
    /\ UNCHANGED vrest

\* emplace_unchecked(key, value)
VectorEmplaceUnchecked ==
    /\ Len(vec) < MaxRows
    /\ \E key \in VectorKeys, value \in VectorValues :
           /\ vec' = emplace_unchecked(vec, key, value).table
           /\ vLast' = [op |-> "emplace_unchecked", key |-> key,
                        value |-> value,
                        probes |-> find_key_maybe_max_Probes(vec, key),
                        before |-> vec]
    /\ UNCHANGED vrest

\* insert_unchecked(key, value)
VectorInsertUnchecked ==
    /\ Len(vec) < MaxRows
    /\ \E key \in VectorKeys, value \in VectorValues :
           /\ vec' = insert_unchecked(vec, key, value).table
           /\ vLast' = [op |-> "insert_unchecked", key |-> key,
                        value |-> value,
                        probes |-> find_key_maybe_max_Probes(vec, key),
                        before |-> vec]
    /\ UNCHANGED vrest

\* erase(key)
VectorErase ==
    /\ \E key \in VectorKeys :
           /\ vec' = erase(vec, key).table
           /\ vLast' = [NoVectorOp EXCEPT !.op = "erase", !.key = key,
                                          !.before = vec]
    /\ UNCHANGED vrest

VNextVector ==
    \/ VectorEmplace
    \/ VectorInsert
    \/ VectorInsertOrAssign
    \/ VectorEmplaceUnchecked
    \/ VectorInsertUnchecked
    \/ VectorErase

\* An AssocSortedVector as constructed
VInit ==
    /\ vec = <<>>
    /\ vLast = NoVectorOp

-----------------------------------------------------------------------------
(* oki/util/oki_container.h : variadic_set_intersection                    *)

\* helper_::Status
STOP == -1
NEW_MAX == 0
CALL == 1

MinStatus(a, b) == IF a < b THEN a ELSE b

\* std::find_if_not(first, end, pair.first < max): the first position at or
\* after pos whose key is not less than max, end() if there is none
RECURSIVE FindIfNotLess(_, _, _)
FindIfNotLess(table, pos, max) ==
    IF pos > Len(table) THEN pos
    ELSE IF KeyOf(table[pos]) < max
             THEN FindIfNotLess(table, pos + 1, max)
             ELSE pos

\* find_if_not with <= in place of <
RECURSIVE FindIfNotLessOrEqual(_, _, _)
FindIfNotLessOrEqual(table, pos, max) ==
    IF pos > Len(table) THEN pos
    ELSE IF KeyOf(table[pos]) <= max
             THEN FindIfNotLessOrEqual(table, pos + 1, max)
             ELSE pos

\* step_iter_pair that also skips the keys equal to the candidate
step_iter_pairSkipEqual(max, table, pos) ==
    LET first == FindIfNotLessOrEqual(table, pos, max)
    IN  IF first = Len(table) + 1
            THEN [pos |-> first, max |-> max, status |-> STOP]
        ELSE IF KeyOf(table[first]) = max
            THEN [pos |-> first, max |-> max, status |-> CALL]
            ELSE [pos |-> first, max |-> KeyOf(table[first]),
                  status |-> NEW_MAX]

\* step_iter_pair that searches from the beginning of the table
step_iter_pairFromBegin(max, table, pos) ==
    LET first == FindIfNotLess(table, 1, max)
    IN  IF first = Len(table) + 1
            THEN [pos |-> first, max |-> max, status |-> STOP]
        ELSE IF KeyOf(table[first]) = max
            THEN [pos |-> first, max |-> max, status |-> CALL]
            ELSE [pos |-> first, max |-> KeyOf(table[first]),
                  status |-> NEW_MAX]

\* helper_::step_iter_pair(max, pair): the cursor afterwards, the candidate
\* key afterwards and the status
step_iter_pair(max, table, pos) ==
    LET first == FindIfNotLess(table, pos, max)
    IN  IF first = Len(table) + 1
            THEN [pos |-> first, max |-> max, status |-> STOP]
        ELSE IF KeyOf(table[first]) = max
            THEN [pos |-> first, max |-> max, status |-> CALL]
            ELSE [pos |-> first, max |-> KeyOf(table[first]),
                  status |-> NEW_MAX]

\* std::min({ step_iter_pair(max, iterPairs)... }): the pairs are stepped left
\* to right, each seeing the candidate the ones before it left
RECURSIVE StepAll(_, _, _, _, _)
StepAll(tables, i, max, cursors, status) ==
    IF i > Len(tables)
        THEN [max |-> max, cursors |-> cursors, status |-> status]
        ELSE LET r == step_iter_pair(max, tables[i], cursors[i])
             IN  StepAll(tables, i + 1, r.max,
                         [cursors EXCEPT ![i] = r.pos],
                         MinStatus(status, r.status))

\* The while (true) loop of variadic_set_intersection: the sequence of the
\* rows <<*iterPairs.first...>> the callback was invoked with
RECURSIVE IntersectionLoop(_, _, _, _)
IntersectionLoop(tables, max, cursors, calls) ==
    LET r == StepAll(tables, 1, max, cursors, CALL)
    IN  IF r.status = STOP THEN calls
        ELSE IF r.status = CALL
            THEN IntersectionLoop(
                     tables, r.max,
                     [i \in 1..Len(tables) |-> r.cursors[i] + 1],
                     Append(calls,
                            [i \in 1..Len(tables) |-> tables[i][r.cursors[i]]]))
            ELSE IntersectionLoop(tables, r.max, r.cursors, calls)

\* helper_::get_first_key reads pair.first->first without comparing
\* pair.first with pair.second.  On an empty first table that is a read
\* through end(): the build either faults or yields whatever the memory
\* holds.  get_first_key is the set of the outcomes of that read.
GarbageKeys == 0..(MaxKey + 1)

get_first_key(tables) ==
    IF tables[1] # <<>>
        THEN {[fault |-> FALSE, key |-> KeyOf(tables[1][1])]}
        ELSE {[fault |-> FALSE, key |-> g] : g \in GarbageKeys}
             \cup {[fault |-> TRUE, key |-> 0]}

\* variadic_set_intersection(func, iterPairs...), given what get_first_key
\* read
variadic_set_intersection(tables, read) ==
    IF read.fault
        THEN [calls |-> <<>>, crashed |-> TRUE]
        ELSE [calls |-> IntersectionLoop(tables, read.key,
                                         [i \in 1..Len(tables) |-> 1], <<>>),
              crashed |-> FALSE]

\* The strictly increasing sequence of the elements of a set of keys
RECURSIVE SortedSeq(_)
SortedSeq(S) ==
    IF S = {} THEN <<>>
    ELSE LET m == CHOOSE x \in S : \A y \in S : x <= y
         IN  <<m>> \o SortedSeq(S \ {m})

\* The tables drawn for a run: every table with strictly increasing keys in
\* 0..MaxKey, each key with each value
TableOver(S, valueOf) ==
    [i \in 1..Cardinality(S) |-> <<SortedSeq(S)[i], valueOf[SortedSeq(S)[i]]>>]

DrawnTables ==
    {TableOver(S, [k \in 0..MaxKey |-> "v0"]) : S \in SUBSET (0..MaxKey)}

NoResult == [calls |-> <<>>, crashed |-> FALSE]

IInit ==
    /\ tabs \in UNION {[1..k -> DrawnTables] : k \in 1..MaxTables}
    /\ isPc = "ready"
    /\ isRes = NoResult

\* One call of variadic_set_intersection on the drawn tables
RunIntersection ==
    /\ isPc = "ready"
    /\ \E read \in get_first_key(tabs) :
           isRes' = variadic_set_intersection(tabs, read)
    /\ isPc' = "done"
    /\ UNCHANGED <<tabs, hvars, cvars, xvars>>

INext == RunIntersection

lrest == <<hvars, cvars, wvars, evars, svars, pvars, mvars, vvars>>

\* The tables IsectLoopSpec calls variadic_set_intersection on
LoopInputs == UNION {[1..k -> DrawnTables] : k \in 1..MaxLoopTables}

\* variadic_set_intersection(func, iterPairs...) is called and begins with
\* auto max = helper::get_first_key(iterPairs...)
LoopEnter ==
    /\ isPc = "ready"
    /\ \E tables \in LoopInputs :
           /\ tabs' = tables
           /\ \E read \in get_first_key(tables) :
                  IF read.fault
                      THEN /\ isPc' = "done"
                           /\ isRes' = [calls |-> <<>>, crashed |-> TRUE]
                           /\ UNCHANGED lvars
                      ELSE /\ isPc' = "loop"
                           /\ isRes' = NoResult
                           /\ isMax' = read.key
                           /\ isCur' = [i \in 1..Len(tables) |-> 1]
                           /\ UNCHANGED <<isIdx, isStatus>>
    /\ UNCHANGED lrest

\* std::min({ helper::step_iter_pair(max, iterPairs)... }): the next pair
\* is stepped
StepPair ==
    /\ isPc = "loop"
    /\ isIdx <= Len(tabs)
    /\ LET r == step_iter_pair(isMax, tabs[isIdx], isCur[isIdx]) IN
           /\ isCur' = [isCur EXCEPT ![isIdx] = r.pos]
           /\ isMax' = r.max
           /\ isStatus' = MinStatus(isStatus, r.status)
    /\ isIdx' = isIdx + 1
    /\ UNCHANGED <<tabs, isPc, isRes, lrest>>

\* The tests of status once every pair has been stepped: return on STOP,
\* call back and move every cursor on CALL, then the next round
TestStatus ==
    /\ isPc = "loop"
    /\ isIdx = Len(tabs) + 1
    /\ IF isStatus = STOP
           THEN /\ isPc' = "done"
                /\ UNCHANGED <<isCur, isIdx, isStatus, isRes>>
           ELSE /\ isIdx' = 1
                /\ isStatus' = CALL
                /\ UNCHANGED isPc
                /\ IF isStatus = CALL
                       THEN /\ isCur' = [i \in 1..Len(tabs) |-> isCur[i] + 1]
                            /\ isRes' = [isRes EXCEPT !.calls =
                                            Append(@, [i \in 1..Len(tabs) |->
                                                          tabs[i][isCur[i]]])]
                       ELSE UNCHANGED <<isCur, isRes>>
    /\ UNCHANGED <<tabs, isMax, lrest>>

LNext ==
    \/ LoopEnter
    \/ StepPair
    \/ TestStatus

\* No call of variadic_set_intersection in progress
LInit ==
    /\ isCur = <<>>
    /\ isMax = 0
    /\ isIdx = 1
    /\ isStatus = CALL

-----------------------------------------------------------------------------
(* oki/oki_component.h : ComponentManager                                  *)

\* The tables registered in data_
Registered(data) == DOMAIN data

NoTables == [t \in {} |-> <<>>]

\* get_or_create_cont_<Type>(): data_ afterwards
get_or_create_cont_(data, type) ==
    IF type \in DOMAIN data THEN data ELSE (type :> <<>>) @@ data

\* has_component<Type>(entity)
has_component(data, type, entity) ==
    IF type \in DOMAIN data THEN contains(data[type], entity) ELSE FALSE

\* num_components<Type>()
num_components(data, type) ==
    IF type \in DOMAIN data THEN Len(data[type]) ELSE 0

\* The result of get_component_checked when there is no component
nullptr == [null |-> TRUE, value |-> "v0"]

\* get_component_checked<Type>(entity): nullptr, or the pointer to the
\* component (the component it points to)
get_component_checked(data, type, entity) ==
    IF type \in DOMAIN data
        THEN LET compIter == find(data[type], entity)
             IN  IF compIter # Len(data[type]) + 1
                     THEN [null |-> FALSE,
                           value |-> ValOf(data[type][compIter])]
                     ELSE nullptr
        ELSE nullptr

\* reserve that resizes the vector down to n elements
reserveResizing(table, n) ==
    IF n < Len(table) THEN SubSeq(table, 1, n) ELSE table

\* AssocSortedVector::reserve(n) is std::vector::reserve: it changes the
\* capacity, which the model does not carry, and no element
reserve(table, n) == table

\* The sizes reserve_components is called with: none, fewer than a table
\* can hold and as many as a table can hold
ReserveSizes == {0, 1, MaxEntity}

\* get_component<Type>(entity): the component's value (the entity is taken to
\* have one)
get_component(data, type, entity) ==
    ValOf(data[type][find(data[type], entity)])

\* The entities a caller can hold: a default-constructed Entity (the invalid
\* handle) and the ones create_entity returned
Entities == {get_invalid_handle_constant}
                \cup {h \in get_first_valid_handle..MaxEntity : h < handGen_}

NoOp == [op |-> "none", types |-> <<>>, entity |-> 0, value |-> "v0",
         ok |-> FALSE, iter |-> 0, calls |-> <<>>, crashed |-> FALSE,
         n |-> 0, count |-> 0]

\* The number of components in all the tables of data_
RECURSIVE TotalComponents(_, _)
TotalComponents(data, types) ==
    IF types = {} THEN 0
    ELSE LET t == CHOOSE x \in types : TRUE
         IN  Len(data[t]) + TotalComponents(data, types \ {t})

Running == ~lastOp.crashed

CInit ==
    /\ data_ = NoTables
    /\ handGen_ = get_first_valid_handle
    /\ bound = {}
    /\ lastOp = NoOp

\* create_entity()
CreateEntity ==
    /\ Running
    /\ handGen_ < MaxEntity
    /\ handGen_' = LinearCreateHandle(handGen_).counter
    /\ lastOp' = [NoOp EXCEPT !.op = "create_entity",
                              !.entity = LinearCreateHandle(handGen_).ret,
                              !.ok = TRUE]
    /\ UNCHANGED <<data_, bound, hvars, ivars, xvars>>

\* destroy_entity that also unbinds the entity's components
DestroyEntityCascading ==
    /\ Running
    /\ \E entity \in Entities :
           /\ data_' = [t \in DOMAIN data_ |-> erase(data_[t], entity).table]
           /\ bound' = {b \in bound : b[2] # entity}
           /\ lastOp' = [NoOp EXCEPT !.op = "destroy_entity",
                                     !.entity = entity,
                                     !.ok = LinearDestroyHandle(entity)]
    /\ UNCHANGED <<handGen_, hvars, ivars, xvars>>

\* destroy_entity(entity)
DestroyEntity ==
    /\ Running
    /\ \E entity \in Entities :
           lastOp' = [NoOp EXCEPT !.op = "destroy_entity",
                                  !.entity = entity,
                                  !.ok = LinearDestroyHandle(entity)]
    /\ UNCHANGED <<data_, handGen_, bound, hvars, ivars, xvars>>

\* emplace_component<Type>(entity, args...) and bind_component(entity, value)
BindComponent ==
    /\ Running
    /\ \E type \in Types, entity \in Entities : \E value \in Values[type] :
           LET data == get_or_create_cont_(data_, type)
               r    == emplace(data[type], entity, value)
           IN  /\ data_' = [data EXCEPT ![type] = r.table]
               /\ bound' = bound \cup {<<type, entity>>}
               /\ lastOp' = [NoOp EXCEPT !.op = "bind", !.types = <<type>>,
                                         !.entity = entity, !.value = value,
                                         !.ok = r.inserted, !.iter = r.iter]
    /\ UNCHANGED <<handGen_, hvars, ivars, xvars>>

\* bind_or_assign_component(entity, value)
BindOrAssignComponent ==
    /\ Running
    /\ \E type \in Types, entity \in Entities : \E value \in Values[type] :
           LET data == get_or_create_cont_(data_, type)
               r    == insert_or_assign(data[type], entity, value)
           IN  /\ data_' = [data EXCEPT ![type] = r.table]
               /\ bound' = bound \cup {<<type, entity>>}
               /\ lastOp' = [NoOp EXCEPT !.op = "bind_or_assign",
                                         !.types = <<type>>,
                                         !.entity = entity, !.value = value,
                                         !.ok = r.inserted, !.iter = r.iter]
    /\ UNCHANGED <<handGen_, hvars, ivars, xvars>>

\* remove_component<Type>(entity)
RemoveComponent ==
    /\ Running
    /\ \E type \in Types, entity \in Entities :
           LET r == IF type \in DOMAIN data_
                        THEN erase(data_[type], entity)
                        ELSE [table |-> <<>>, ret |-> FALSE]
           IN  /\ data_' = IF type \in DOMAIN data_
                               THEN [data_ EXCEPT ![type] = r.table]
                               ELSE data_
               /\ bound' = bound \ {<<type, entity>>}
               /\ lastOp' = [NoOp EXCEPT !.op = "remove", !.types = <<type>>,
                                         !.entity = entity, !.ok = r.ret,
                                         !.count = num_components(data_, type)
                                                   - Len(r.table)]
    /\ UNCHANGED <<handGen_, hvars, ivars, xvars>>

\* erase_components<Type>() that fetches its container with
\* get_or_create_cont_
EraseComponentsOfCreating ==
    /\ Running
    /\ \E type \in Types :
           /\ data_' = [get_or_create_cont_(data_, type) EXCEPT ![type] = <<>>]
           /\ bound' = {b \in bound : b[1] # type}
           /\ lastOp' = [NoOp EXCEPT !.op = "erase_components_of",
                                     !.types = <<type>>,
                                     !.count = num_components(data_, type)]
    /\ UNCHANGED <<handGen_, hvars, ivars, xvars>>

\* erase_components<Type>() that unregisters the container
EraseComponentsOfDropping ==
    /\ Running
    /\ \E type \in Types :
           /\ data_' = [t \in DOMAIN data_ \ {type} |-> data_[t]]
           /\ bound' = {b \in bound : b[1] # type}
           /\ lastOp' = [NoOp EXCEPT !.op = "erase_components_of",
                                     !.types = <<type>>,
                                     !.count = num_components(data_, type)]
    /\ UNCHANGED <<handGen_, hvars, ivars, xvars>>

\* erase_components<Type>()
EraseComponentsOf ==
    /\ Running
    /\ \E type \in Types :
           /\ data_' = IF type \in DOMAIN data_
                           THEN [data_ EXCEPT ![type] = <<>>]
                           ELSE data_
           /\ bound' = {b \in bound : b[1] # type}
           /\ lastOp' = [NoOp EXCEPT !.op = "erase_components_of",
                                     !.types = <<type>>,
                                     !.count = num_components(data_, type)]
    /\ UNCHANGED <<handGen_, hvars, ivars, xvars>>

\* A ComponentView holds references to the containers of its types.  The
\* references are the types themselves as long as data_ is not cleared;
\* once it is, the containers are destroyed and the view dangles.
NoView == [types |-> <<>>, dangling |-> FALSE]

\* erase_components(): data_.clear() destroys the containers, which leaves
\* the references of a view dangling
EraseComponents ==
    /\ Running
    /\ data_' = NoTables
    /\ bound' = {}
    /\ lastOp' = [NoOp EXCEPT !.op = "erase_components",
                              !.count = TotalComponents(data_, DOMAIN data_)]
    /\ view' = IF view.types # <<>>
                   THEN [view EXCEPT !.dangling = TRUE]
                   ELSE view
    /\ UNCHANGED <<handGen_, hvars, ivars, yvars>>

\* reserve_components<Type>(n)
ReserveComponents ==
    /\ Running
    /\ \E type \in Types, n \in ReserveSizes :
           LET data == get_or_create_cont_(data_, type)
           IN  /\ data_' = [data EXCEPT ![type] = reserve(data[type], n)]
               /\ lastOp' = [NoOp EXCEPT !.op = "reserve",
                                         !.types = <<type>>, !.n = n]
    /\ UNCHANGED <<handGen_, bound, hvars, ivars, xvars>>

\* get_component_checked<Type>(entity)
GetComponentChecked ==
    /\ Running
    /\ \E type \in Types, entity \in Entities :
           LET r == get_component_checked(data_, type, entity)
           IN  lastOp' = [NoOp EXCEPT !.op = "get_component_checked",
                                     !.types = <<type>>, !.entity = entity,
                                     !.ok = ~r.null, !.value = r.value]
    /\ UNCHANGED <<data_, handGen_, bound, hvars, ivars, xvars>>

\* has_component<Type>(entity)
HasComponent ==
    /\ Running
    /\ \E type \in Types, entity \in Entities :
           lastOp' = [NoOp EXCEPT !.op = "has_component",
                                 !.types = <<type>>, !.entity = entity,
                                 !.ok = has_component(data_, type, entity)]
    /\ UNCHANGED <<data_, handGen_, bound, hvars, ivars, xvars>>

\* The type lists a query names
Queries == UNION {[1..k -> Types] : k \in 1..2}

\* component_intersection_(func, conts...): the callback gets the entity of
\* the first row and the component of every row
component_intersection_(tables, read) ==
    LET r == variadic_set_intersection(tables, read)
    IN  [calls |-> [c \in 1..Len(r.calls) |->
                       [entity |-> KeyOf(r.calls[c][1]),
                        comps  |-> [i \in 1..Len(tables) |->
                                       ValOf(r.calls[c][i])]]],
         crashed |-> r.crashed]

\* for_each that fetches its containers with get_or_create_cont_
RECURSIVE CreateAll(_, _, _)
CreateAll(data, types, i) ==
    IF i > Len(types) THEN data
    ELSE CreateAll(get_or_create_cont_(data, types[i]), types, i + 1)

for_eachCreating(data, types) ==
    LET created == CreateAll(data, types, 1)
        tables  == [i \in 1..Len(types) |-> created[types[i]]]
    IN  {[data |-> created, entered |-> TRUE,
          calls |-> component_intersection_(tables, read).calls,
          crashed |-> component_intersection_(tables, read).crashed]
             : read \in get_first_key(tables)}

\* for_each<Types...>(func): the outcomes of the call (one, unless
\* get_first_key reads through end()): data_ afterwards, the callback's
\* invocations, and whether the containers were all there
for_each(data, types) ==
    IF \E i \in 1..Len(types) : types[i] \notin DOMAIN data
        THEN {[data |-> data, entered |-> FALSE, calls |-> <<>>,
               crashed |-> FALSE]}
        ELSE LET tables == [i \in 1..Len(types) |-> data[types[i]]]
             IN  {[data |-> data, entered |-> TRUE,
                   calls |-> component_intersection_(tables, read).calls,
                   crashed |-> component_intersection_(tables, read).crashed]
                      : read \in get_first_key(tables)}

ForEach ==
    /\ Running
    /\ \E types \in Queries :
           \E r \in for_each(data_, types) :
               /\ data_' = r.data
               /\ lastOp' = [NoOp EXCEPT !.op = "for_each", !.types = types,
                                         !.ok = r.entered, !.calls = r.calls,
                                         !.crashed = r.crashed]
    /\ UNCHANGED <<handGen_, bound, hvars, ivars, xvars>>

\* get_component_view<Types...>(): data_ afterwards (the container of int
\* is fetched with get_or_create_cont_ before those of Types...)
get_component_view(data, types) ==
    CreateAll(get_or_create_cont_(data, "int"), types, 1)

\* ComponentView::for_each that hands the containers over in reverse
view_for_eachReversed(data, v) ==
    LET n      == Len(v.types)
        tables == [i \in 1..n |-> data[v.types[n + 1 - i]]]
    IN  {[calls |-> component_intersection_(tables, read).calls,
          crashed |-> component_intersection_(tables, read).crashed]
             : read \in get_first_key(tables)}

\* What for_each can come up with when it reads destroyed containers: no
\* row, or a row of whatever the memory holds
GarbageCalls(types) ==
    {<<>>} \cup {<<[entity |-> e,
                    comps |-> [i \in 1..Len(types) |-> "v0"]]>> : e \in 0..1}

\* ComponentView::for_each(func): the outcomes of the call.  Through a
\* dangling view it reads destroyed containers: the build either faults or
\* iterates over what the memory holds.
view_for_each(data, v) ==
    IF v.dangling
        THEN {[calls |-> <<>>, crashed |-> TRUE]}
             \cup {[calls |-> g, crashed |-> FALSE] : g \in GarbageCalls(v.types)}
        ELSE LET tables == [i \in 1..Len(v.types) |-> data[v.types[i]]]
             IN  {[calls |-> component_intersection_(tables, read).calls,
                   crashed |-> component_intersection_(tables, read).crashed]
                      : read \in get_first_key(tables)}

\* The type lists a view is asked for: one type, or two different ones
ViewQueries == {q \in Queries : Len(q) = 1 \/ q[1] # q[2]}

\* get_component_view<Types...>(), called once
GetComponentView ==
    /\ Running
    /\ view = NoView
    /\ \E types \in ViewQueries :
           /\ data_' = get_component_view(data_, types)
           /\ view' = [NoView EXCEPT !.types = types]
           /\ lastOp' = [NoOp EXCEPT !.op = "get_component_view",
                                     !.types = types]
    /\ UNCHANGED <<handGen_, bound, hvars, ivars, yvars>>

\* view.for_each(func) on the view the caller holds
ViewForEach ==
    /\ Running
    /\ view.types # <<>>
    /\ \E r \in view_for_each(data_, view) :
           lastOp' = [NoOp EXCEPT !.op = "view_for_each",
                                 !.types = view.types, !.ok = TRUE,
                                 !.calls = r.calls, !.crashed = r.crashed]
    /\ UNCHANGED <<data_, handGen_, bound, hvars, ivars, xvars>>

VNext ==
    \/ CreateEntity
    \/ BindComponent
    \/ BindOrAssignComponent
    \/ RemoveComponent
    \/ EraseComponentsOf
    \/ GetComponentView
    \/ ViewForEach

CNext ==
    \/ CreateEntity
    \/ DestroyEntity
    \/ BindComponent
    \/ BindOrAssignComponent
    \/ RemoveComponent
    \/ EraseComponentsOf
    \/ EraseComponents
    \/ ReserveComponents
    \/ GetComponentChecked
    \/ HasComponent
    \/ ForEach


-----------------------------------------------------------------------------
(* ErasedType<Size, Align> holding payloads of one type (oki_type_erasure.h) *)
(* The payload type is the ObjHelper of the tests: an object with a value_  *)
(* whose copy and move operations both copy value_ and leave their source   *)
(* as it was.                                                               *)

\* ObjHelper::value_
PayloadValues == {0, 1}

\* The slots of the holders a run constructs, in construction order
Holders == 1..MaxHolders

\* A holder not constructed yet
NoHolder == [state |-> "none", emplaced |-> FALSE, obj |-> 0]

\* The last call: none yet
NoErasedOp == [op |-> "none", dst |-> 0, src |-> 0, arg |-> 0,
               srcBefore |-> 0, emplaced |-> TRUE, ret |-> 0,
               signal |-> "none"]

\* The next holder to construct (0: all are constructed)
NewHolder(hs) ==
    IF \E k \in Holders : hs[k].state = "none"
        THEN CHOOSE k \in Holders :
                 /\ hs[k].state = "none"
                 /\ \A j \in Holders : hs[j].state = "none" => k <= j
        ELSE 0

\* The holders the caller may use: constructed, not destroyed, emplaced
Usable(hs) == {k \in Holders : hs[k].state = "alive" /\ hs[k].emplaced}

\* get_data_<Type>(): the payload object the storage designates (the object
\* in buf_, or the one ptr_ points to)
get_data_(hs, k) == hs[k].obj

\* What uninitialised storage read as a payload can yield
GarbageValues == PayloadValues

\* The outcome of a read: a value, or a signal in its place
Read(value) == [value |-> value, signal |-> "none"]
Signal(name) == [value |-> 0, signal |-> name]

\* get_as with a check for a never-initialised holder
get_asChecked(sm, hs, objs, k) ==
    IF hs[k].emplaced
        THEN {Read(objs[get_data_(hs, k)].value)}
        ELSE {Signal("IllegalState")}

\* get_as<Type>(): the outcomes of reading the value through the returned
\* reference.  There is no check: on a holder whose storage was never
\* initialised the reference designates the raw buffer, or whatever the
\* uninitialised ptr_ points to (a fault, or some memory).
get_as(sm, hs, objs, k) ==
    IF hs[k].emplaced
        THEN {Read(objs[get_data_(hs, k)].value)}
        ELSE {Read(g) : g \in GarbageValues}
             \cup (IF sm THEN {} ELSE {Signal("fault")})

\* initalize_data_<Type>(args): a new payload object, placed in buf_ or
\* allocated
initalize_data_(objs, value) ==
    Append(objs, [value |-> value, destructs |-> 0])

\* hold<Type>(value): assigns to the stored object
hold(hs, objs, k, value) ==
    [objs EXCEPT ![get_data_(hs, k)].value = value]

\* copy_from assigning in the wrong direction
copy_fromReversed(hs, objs, dst, src) ==
    [holders |-> hs,
     objects |-> hold(hs, objs, src, objs[get_data_(hs, dst)].value)]

\* copy_from<Type>(that): hold(that.get_as())
copy_from(hs, objs, dst, src) ==
    [holders |-> hs,
     objects |-> hold(hs, objs, dst, objs[get_data_(hs, src)].value)]

\* move_from on the heap taking the pointer of the source without giving
\* its own in exchange
move_fromStealing(sm, hs, objs, dst, src) ==
    IF sm
        THEN [holders |-> hs,
              objects |-> hold(hs, objs, dst, objs[get_data_(hs, src)].value)]
        ELSE [holders |-> [hs EXCEPT ![dst].obj = hs[src].obj],
              objects |-> objs]

\* move_from<Type>(that): inline, hold(std::move(that.get_as())); on the
\* heap, the two ptr_ are swapped
move_from(sm, hs, objs, dst, src) ==
    IF sm
        THEN [holders |-> hs,
              objects |-> hold(hs, objs, dst, objs[get_data_(hs, src)].value)]
        ELSE [holders |-> [hs EXCEPT ![dst].obj = hs[src].obj,
                                     ![src].obj = hs[dst].obj],
              objects |-> objs]

\* destroy_data_<Type>(): destroys (and on the heap frees) the stored object
destroy_data_(hs, objs, k) ==
    [objs EXCEPT ![get_data_(hs, k)].destructs = @ + 1]

ErasedRunning == eLast.signal # "fault"

erest == <<hvars, cvars, ivars, wvars, svars, pvars, mvars, vvars, lvars>>

\* ErasedType::erase_type<Type>(value)
EraseType ==
    /\ ErasedRunning
    /\ NewHolder(holders) # 0
    /\ \E value \in PayloadValues :
           LET k == NewHolder(holders) IN
           /\ objects' = initalize_data_(objects, value)
           /\ holders' = [holders EXCEPT ![k] =
                              [state |-> "alive", emplaced |-> TRUE,
                               obj |-> Len(objects) + 1]]
           /\ eLast' = [NoErasedOp EXCEPT !.op = "erase_type", !.dst = k,
                                          !.arg = value]
    /\ UNCHANGED <<small, erest>>

\* ErasedType(const ErasedType& that): COPY_CONSTR
CopyConstruct ==
    /\ ErasedRunning
    /\ NewHolder(holders) # 0
    /\ \E src \in Usable(holders) :
           LET k == NewHolder(holders)
               value == objects[get_data_(holders, src)].value IN
           /\ objects' = initalize_data_(objects, value)
           /\ holders' = [holders EXCEPT ![k] =
                              [state |-> "alive", emplaced |-> TRUE,
                               obj |-> Len(objects) + 1]]
           /\ eLast' = [NoErasedOp EXCEPT !.op = "copy_construct", !.dst = k,
                                          !.src = src, !.srcBefore = value]
    /\ UNCHANGED <<small, erest>>

\* ErasedType(ErasedType&& that): MOVE_CONSTR builds a new object from the
\* moved value; the source keeps its own object
MoveConstruct ==
    /\ ErasedRunning
    /\ NewHolder(holders) # 0
    /\ \E src \in Usable(holders) :
           LET k == NewHolder(holders)
               value == objects[get_data_(holders, src)].value IN
           /\ objects' = initalize_data_(objects, value)
           /\ holders' = [holders EXCEPT ![k] =
                              [state |-> "alive", emplaced |-> TRUE,
                               obj |-> Len(objects) + 1]]
           /\ eLast' = [NoErasedOp EXCEPT !.op = "move_construct", !.dst = k,
                                          !.src = src, !.srcBefore = value]
    /\ UNCHANGED <<small, erest>>

\* operator=(const ErasedType& that): COPY_ASSIGN is copy_from
CopyAssign ==
    /\ ErasedRunning
    /\ \E dst \in Usable(holders), src \in Usable(holders) :
           LET r == copy_from(holders, objects, dst, src) IN
           /\ holders' = r.holders
           /\ objects' = r.objects
           /\ eLast' = [NoErasedOp EXCEPT
                            !.op = "copy_assign", !.dst = dst, !.src = src,
                            !.srcBefore =
                                objects[get_data_(holders, src)].value]
    /\ UNCHANGED <<small, erest>>

\* operator=(ErasedType&& that): MOVE_ASSIGN is move_from
MoveAssign ==
    /\ ErasedRunning
    /\ \E dst \in Usable(holders), src \in Usable(holders) :
           LET r == move_from(small, holders, objects, dst, src) IN
           /\ holders' = r.holders
           /\ objects' = r.objects
           /\ eLast' = [NoErasedOp EXCEPT
                            !.op = "move_assign", !.dst = dst, !.src = src,
                            !.srcBefore =
                                objects[get_data_(holders, src)].value]
    /\ UNCHANGED <<small, erest>>

\* copy_from<Type>(that), called directly
CopyFrom ==
    /\ ErasedRunning
    /\ \E dst \in Usable(holders), src \in Usable(holders) :
           LET r == copy_from(holders, objects, dst, src) IN
           /\ holders' = r.holders
           /\ objects' = r.objects
           /\ eLast' = [NoErasedOp EXCEPT
                            !.op = "copy_from", !.dst = dst, !.src = src,
                            !.srcBefore =
                                objects[get_data_(holders, src)].value]
    /\ UNCHANGED <<small, erest>>

\* move_from<Type>(std::move(that)), called directly
MoveFrom ==
    /\ ErasedRunning
    /\ \E dst \in Usable(holders), src \in Usable(holders) :
           LET r == move_from(small, holders, objects, dst, src) IN
           /\ holders' = r.holders
           /\ objects' = r.objects
           /\ eLast' = [NoErasedOp EXCEPT
                            !.op = "move_from", !.dst = dst, !.src = src,
                            !.srcBefore =
                                objects[get_data_(holders, src)].value]
    /\ UNCHANGED <<small, erest>>

\* hold<Type>(value)
Hold ==
    /\ ErasedRunning
    /\ \E dst \in Usable(holders), value \in PayloadValues :
           /\ objects' = hold(holders, objects, dst, value)
           /\ eLast' = [NoErasedOp EXCEPT !.op = "hold", !.dst = dst,
                                          !.arg = value]
    /\ UNCHANGED <<small, holders, erest>>

\* get_as<Type>(), the value read through the reference
GetAs ==
    /\ ErasedRunning
    /\ \E k \in Holders :
           /\ holders[k].state = "alive"
           /\ \E ret \in get_as(small, holders, objects, k) :
                  eLast' = [NoErasedOp EXCEPT
                                !.op = "get_as", !.dst = k,
                                !.emplaced = holders[k].emplaced,
                                !.ret = ret.value,
                                !.signal = ret.signal]
    /\ UNCHANGED <<small, holders, objects, erest>>

\* ~ErasedType(): DESTROY through budgetVtable_
DestroyHolder ==
    /\ ErasedRunning
    /\ \E k \in Usable(holders) :
           /\ objects' = destroy_data_(holders, objects, k)
           /\ holders' = [holders EXCEPT ![k].state = "dead"]
           /\ eLast' = [NoErasedOp EXCEPT !.op = "destroy", !.dst = k]
    /\ UNCHANGED <<small, erest>>

\* The protected default constructor, as a derived class can call it:
\* storage_ and budgetVtable_ are left uninitialised
DefaultConstruct ==
    /\ ErasedRunning
    /\ NewHolder(holders) # 0
    /\ LET k == NewHolder(holders) IN
           /\ holders' = [holders EXCEPT ![k] =
                              [state |-> "alive", emplaced |-> FALSE,
                               obj |-> 0]]
           /\ eLast' = [NoErasedOp EXCEPT !.op = "default_construct",
                                          !.dst = k]
    /\ UNCHANGED <<small, objects, erest>>

ENext ==
    \/ EraseType
    \/ CopyConstruct
    \/ MoveConstruct
    \/ CopyAssign
    \/ MoveAssign
    \/ CopyFrom
    \/ MoveFrom
    \/ Hold
    \/ GetAs
    \/ DestroyHolder

RNext ==
    \/ DefaultConstruct
    \/ EraseType
    \/ CopyConstruct
    \/ MoveConstruct
    \/ CopyAssign
    \/ MoveAssign
    \/ CopyFrom
    \/ MoveFrom
    \/ Hold
    \/ GetAs
    \/ DestroyHolder

\* No holder constructed yet; the payload type fits the buffer or does not
EInit ==
    /\ small \in BOOLEAN
    /\ holders = [k \in Holders |-> NoHolder]
    /\ objects = <<>>
    /\ eLast = NoErasedOp


-----------------------------------------------------------------------------
(* SystemManager (oki_system.h)                                            *)

\* The System objects of the model, and the null pointer to one
Systems == {"s1"}
NoSystem == "null"

\* SystemPriority values used
Priorities == {0, 1}

\* Exit codes used
ExitCodes == {2}

\* struct SystemData
SystemData(system, handle, priority) ==
    [system_ |-> system, handle_ |-> handle, priority_ |-> priority]

\* std::list::insert(pos, x) and std::list::erase(pos) on a sequence
ListInsert(list, pos, x) ==
    SubSeq(list, 1, pos - 1) \o <<x>> \o SubSeq(list, pos, Len(list))
\* erase that leaves the list as it is
ListEraseNothing(list, pos) == list

ListErase(list, pos) ==
    SubSeq(list, 1, pos - 1) \o SubSeq(list, pos + 1, Len(list))

\* std::find_if(begin, end, elem.priority_ <= priority): Len + 1 is end()
FindNotHigherPriority(systems, priority) ==
    IF \E i \in 1..Len(systems) : systems[i].priority_ <= priority
        THEN CHOOSE i \in 1..Len(systems) :
                 /\ systems[i].priority_ <= priority
                 /\ \A j \in 1..(i - 1) : ~(systems[j].priority_ <= priority)
        ELSE Len(systems) + 1

\* std::find_if(begin, end, elem.priority_ < priority): Len + 1 is end()
FindLowerPriority(systems, priority) ==
    IF \E i \in 1..Len(systems) : systems[i].priority_ < priority
        THEN CHOOSE i \in 1..Len(systems) :
                 /\ systems[i].priority_ < priority
                 /\ \A j \in 1..(i - 1) : ~(systems[j].priority_ < priority)
        ELSE Len(systems) + 1

\* add_priority_system inserting before the systems of its own priority
add_priority_systemBeforePeers(systems, counter, priority, system) ==
    LET h   == LinearCreateHandle(counter)
        pos == FindNotHigherPriority(systems, priority)
    IN  [systems |-> ListInsert(systems, pos,
                                SystemData(system, h.ret, priority)),
         counter |-> h.counter, ret |-> h.ret, pos |-> pos]

\* add_priority_system inserting at the front of the list
add_priority_systemAtFront(systems, counter, priority, system) ==
    LET h == LinearCreateHandle(counter) IN
    [systems |-> ListInsert(systems, 1, SystemData(system, h.ret, priority)),
     counter |-> h.counter, ret |-> h.ret, pos |-> 1]

\* add_priority_system(priority, system): the new list, the new counter,
\* the handle returned and the position of the new node
add_priority_system(systems, counter, priority, system) ==
    LET h   == LinearCreateHandle(counter)
        pos == FindLowerPriority(systems, priority)
    IN  [systems |-> ListInsert(systems, pos,
                                SystemData(system, h.ret, priority)),
         counter |-> h.counter, ret |-> h.ret, pos |-> pos]

\* add_system(system)
add_system(systems, counter, system) ==
    add_priority_system(systems, counter, 0, system)

\* seek_handle_(handle): Len + 1 is end()
seek_handle_(systems, handle) ==
    IF \E i \in 1..Len(systems) : systems[i].handle_ = handle
        THEN CHOOSE i \in 1..Len(systems) :
                 /\ systems[i].handle_ = handle
                 /\ \A j \in 1..(i - 1) : systems[j].handle_ # handle
        ELSE Len(systems) + 1

\* remove_system(handle): the node found is marked, not erased
remove_system(systems, handle) ==
    LET pos == seek_handle_(systems, handle) IN
    IF pos # Len(systems) + 1
        THEN [systems |-> [systems EXCEPT
                               ![pos].handle_ = get_invalid_handle_constant,
                               ![pos].system_ = NoSystem],
              ret |-> TRUE]
        ELSE [systems |-> systems, ret |-> FALSE]

\* get_system(handle)
get_system(systems, handle) ==
    LET pos == seek_handle_(systems, handle) IN
    IF pos # Len(systems) + 1 THEN systems[pos].system_ ELSE NoSystem

\* SystemOptions as constructed, and its members
NewOptions == [exitCode_ |-> 0, loopChoice_ |-> "CONT",
               shouldRemove_ |-> FALSE]
skip_rest(options) == [options EXCEPT !.loopChoice_ = "SKIP"]
exit(options, code) ==
    [options EXCEPT !.exitCode_ = code, !.loopChoice_ = "EXIT"]
remove_me(options) == [options EXCEPT !.shouldRemove_ = TRUE]
will_skip(options) == options.loopChoice_ = "SKIP"
will_remove(options) == options.shouldRemove_
exit_info(options) ==
    [first |-> options.loopChoice_ = "EXIT", second |-> options.exitCode_]

\* What a system does with its options in one step: up to two calls, of
\* different members; remove_me(), which touches no field the other two
\* touch, is called first
OptionCalls ==
    {[call |-> "remove_me", code |-> 0], [call |-> "skip_rest", code |-> 0]}
    \cup {[call |-> "exit", code |-> c] : c \in ExitCodes}
OptionScripts ==
    {<<>>} \cup {<<a>> : a \in OptionCalls}
           \cup {s \in {<<a, b>> : a \in OptionCalls, b \in OptionCalls} :
                     /\ s[1].call # s[2].call
                     /\ s[2].call # "remove_me"}

ApplyCall(options, c) ==
    CASE c.call = "remove_me" -> remove_me(options)
      [] c.call = "skip_rest" -> skip_rest(options)
      [] c.call = "exit"      -> exit(options, c.code)

RunScript(script) ==
    IF Len(script) = 0 THEN NewOptions
    ELSE IF Len(script) = 1 THEN ApplyCall(NewOptions, script[1])
    ELSE ApplyCall(ApplyCall(NewOptions, script[1]), script[2])

\* What a system does with the manager in one step: nothing, or one call
\* (remove_system of the invalid constant or of a handle issued so far, or
\* an add while the model may add)
NoManagerCall == [call |-> "none", handle |-> 0, priority |-> 0,
                  system |-> NoSystem]
ManagerCalls(counter) ==
    {NoManagerCall}
    \cup {[NoManagerCall EXCEPT !.call = "remove_system", !.handle = h]
              : h \in 0..(counter - 1)}
    \cup (IF counter <= MaxSystems
              THEN {[NoManagerCall EXCEPT !.call = "add_priority_system",
                                          !.priority = p, !.system = "s1"]
                        : p \in Priorities}
              ELSE {})

\* The manager call a system makes from inside its step: sysIter designates
\* a node, so it moves along when a node is inserted before it
call_manager(systems, counter, iter, m) ==
    CASE m.call = "none" ->
             [systems |-> systems, counter |-> counter, iter |-> iter,
              ret |-> 0, ok |-> FALSE]
      [] m.call = "remove_system" ->
             LET r == remove_system(systems, m.handle) IN
             [systems |-> r.systems, counter |-> counter, iter |-> iter,
              ret |-> 0, ok |-> r.ret]
      [] m.call = "add_priority_system" ->
             LET r == add_priority_system(systems, counter, m.priority,
                                          m.system) IN
             [systems |-> r.systems, counter |-> r.counter,
              iter |-> IF r.pos <= iter THEN iter + 1 ELSE iter,
              ret |-> r.ret, ok |-> TRUE]

\* One pass of the loop of step() over the node at sysIter, the system
\* making manager call m and the option calls of script: the list and the
\* generator after it, whether step() returns and what
step_pass(systems, counter, iter, m, script) ==
    IF systems[iter].system_ = NoSystem
        THEN LET erased == ListErase(systems, iter) IN
             [systems |-> erased, counter |-> counter, iter |-> iter,
              called |-> FALSE, ok |-> FALSE, ret |-> 0,
              done |-> iter > Len(erased), first |-> FALSE, second |-> 0]
        ELSE LET c       == call_manager(systems, counter, iter, m)
                 options == RunScript(script)
             IN  IF will_remove(options)
                     THEN LET erased == ListErase(c.systems, c.iter) IN
                          [systems |-> erased, counter |-> c.counter,
                           iter |-> c.iter, called |-> TRUE, ok |-> c.ok,
                           ret |-> c.ret,
                           done |-> c.iter > Len(erased),
                           first |-> FALSE, second |-> 0]
                 ELSE IF will_skip(options)
                     THEN [systems |-> c.systems, counter |-> c.counter,
                           iter |-> c.iter, called |-> TRUE, ok |-> c.ok,
                           ret |-> c.ret,
                           done |-> TRUE, first |-> FALSE, second |-> 0]
                 ELSE IF exit_info(options).first
                     THEN [systems |-> c.systems, counter |-> c.counter,
                           iter |-> c.iter, called |-> TRUE, ok |-> c.ok,
                           ret |-> c.ret,
                           done |-> TRUE, first |-> TRUE,
                           second |-> exit_info(options).second]
                 ELSE [systems |-> c.systems, counter |-> c.counter,
                       iter |-> c.iter + 1, called |-> TRUE, ok |-> c.ok,
                       ret |-> c.ret,
                       done |-> c.iter + 1 > Len(c.systems),
                       first |-> FALSE, second |-> 0]

\* The last call: none yet
NoSysOp == [op |-> "none", handle |-> 0, priority |-> 0, system |-> NoSystem,
            ok |-> FALSE, found |-> NoSystem, was |-> FALSE,
            m |-> NoManagerCall, script |-> <<>>, stale |-> FALSE,
            stepDone |-> FALSE, first |-> FALSE, second |-> 0,
            runDone |-> FALSE, code |-> 0, empty |-> FALSE]

\* The handles add returned that were removed since: handleGen_ never
\* returns a handle twice
Removed == (get_first_valid_handle..(handleGen_ - 1)) \ registered

\* No step() and no run() is in progress: the caller has control
Idle == sysIter = 0 /\ ~inRun

srest == <<hvars, cvars, ivars, wvars, evars, pvars, mvars, vvars, lvars>>

\* add_priority_system(priority, system), called from outside a step
AddPrioritySystem ==
    /\ Idle
    /\ handleGen_ <= MaxSystems
    /\ \E priority \in Priorities, system \in Systems :
           LET r == add_priority_system(systems_, handleGen_, priority,
                                        system) IN
           /\ systems_' = r.systems
           /\ handleGen_' = r.counter
           /\ registered' = registered \cup {r.ret}
           /\ sLast' = [NoSysOp EXCEPT !.op = "add_priority_system",
                                       !.handle = r.ret,
                                       !.priority = priority,
                                       !.system = system]
    /\ UNCHANGED <<sysIter, inRun, trace, stepStart, srest>>

\* add_system(system), called from outside a step
AddSystem ==
    /\ Idle
    /\ handleGen_ <= MaxSystems
    /\ \E system \in Systems :
           LET r == add_system(systems_, handleGen_, system) IN
           /\ systems_' = r.systems
           /\ handleGen_' = r.counter
           /\ registered' = registered \cup {r.ret}
           /\ sLast' = [NoSysOp EXCEPT !.op = "add_system",
                                       !.handle = r.ret, !.system = system]
    /\ UNCHANGED <<sysIter, inRun, trace, stepStart, srest>>

\* remove_system(handle), called from outside a step
RemoveSystem ==
    /\ Idle
    /\ \E handle \in 0..MaxSystems :
           LET r == remove_system(systems_, handle) IN
           /\ systems_' = r.systems
           /\ registered' = registered \ {handle}
           /\ sLast' = [NoSysOp EXCEPT !.op = "remove_system",
                                       !.handle = handle, !.ok = r.ret,
                                       !.was = handle \in registered]
    /\ UNCHANGED <<handleGen_, sysIter, inRun, trace, stepStart, srest>>

\* get_system(handle), called from outside a step
GetSystem ==
    /\ Idle
    /\ \E handle \in 0..MaxSystems :
           sLast' = [NoSysOp EXCEPT !.op = "get_system", !.handle = handle,
                                    !.found = get_system(systems_, handle),
                                    !.was = handle \in registered]
    /\ UNCHANGED <<systems_, handleGen_, sysIter, inRun, trace, stepStart,
                   registered, srest>>

\* step(), called from outside: the loop is entered, or, on an empty list,
\* left at once
Step ==
    /\ Idle
    /\ trace' = <<>>
    /\ stepStart' = registered
    /\ sysIter' = IF systems_ = <<>> THEN 0 ELSE 1
    /\ sLast' = [NoSysOp EXCEPT !.op = "step",
                                !.stepDone = (systems_ = <<>>)]
    /\ UNCHANGED <<systems_, handleGen_, inRun, registered, srest>>

\* One pass of the loop of step(): a removed node is erased, or the system
\* is stepped and its options are acted on; after the last pass step()
\* returns, and a run() in progress returns when the step asked to exit
StepPass ==
    /\ sysIter # 0
    /\ \E m \in ManagerCalls(handleGen_), script \in OptionScripts :
           LET node == systems_[sysIter]
               r    == step_pass(systems_, handleGen_, sysIter, m, script)
               taken == (IF r.called /\ m.call = "remove_system"
                            THEN registered \cap {m.handle} ELSE {})
                       \cup (IF r.called /\ will_remove(RunScript(script))
                                 THEN {node.handle_} ELSE {})
           IN
           /\ node.system_ = NoSystem => (m = NoManagerCall /\ script = <<>>)
           /\ systems_' = r.systems
           /\ handleGen_' = r.counter
           /\ sysIter' = IF r.done THEN 0 ELSE r.iter
           /\ inRun' = (inRun /\ ~(r.done /\ r.first))
           /\ trace' = IF r.called
                           THEN Append(trace,
                                       [handle |-> node.handle_,
                                        priority |-> node.priority_,
                                        added |->
                                            IF m.call = "add_priority_system"
                                                THEN r.ret ELSE 0,
                                        addedPriority |-> m.priority])
                           ELSE trace
           /\ registered' =
                  (registered
                       \cup (IF r.called /\ m.call = "add_priority_system"
                                 THEN {r.ret} ELSE {}))
                  \ taken
           /\ sLast' = [NoSysOp EXCEPT
                            !.op = IF r.called THEN "system_step"
                                               ELSE "erase_removed",
                            !.handle = node.handle_,
                            !.priority = node.priority_,
                            !.system = node.system_,
                            !.m = m, !.script = script,
                            !.ok = r.ok,
                            !.was = m.handle \in registered,
                            !.stale = node.handle_ \in Removed,
                            !.stepDone = r.done,
                            !.first = r.first, !.second = r.second,
                            !.runDone = (inRun /\ r.done /\ r.first),
                            !.code = r.second]
    /\ UNCHANGED <<stepStart, srest>>

\* run(), called from outside
Run ==
    /\ Idle
    /\ inRun' = TRUE
    /\ sLast' = [NoSysOp EXCEPT !.op = "run"]
    /\ UNCHANGED <<systems_, handleGen_, sysIter, trace, stepStart,
                   registered, srest>>

\* The loop of run(): with no node left it returns 0, otherwise it calls
\* step()
RunLoop ==
    /\ inRun
    /\ sysIter = 0
    /\ IF systems_ = <<>>
           THEN /\ inRun' = FALSE
                /\ sLast' = [NoSysOp EXCEPT !.op = "run_loop",
                                            !.runDone = TRUE, !.code = 0,
                                            !.empty = TRUE]
                /\ UNCHANGED <<sysIter, trace, stepStart>>
           ELSE /\ sysIter' = 1
                /\ trace' = <<>>
                /\ stepStart' = registered
                /\ sLast' = [NoSysOp EXCEPT !.op = "run_loop"]
                /\ UNCHANGED inRun
    /\ UNCHANGED <<systems_, handleGen_, registered, srest>>

SNext ==
    \/ AddPrioritySystem
    \/ AddSystem
    \/ RemoveSystem
    \/ GetSystem
    \/ Step
    \/ StepPass
    \/ Run
    \/ RunLoop

\* A SystemManager as constructed
SInit ==
    /\ systems_ = <<>>
    /\ handleGen_ = get_first_valid_handle
    /\ sysIter = 0
    /\ inRun = FALSE
    /\ trace = <<>>
    /\ stepStart = {}
    /\ registered = {}
    /\ sLast = NoSysOp


-----------------------------------------------------------------------------
(* SubjectPipe<Subject> (oki_observer.h)                                   *)

\* The Observer objects of the model and the data sent
Observers == {"o1", "o2"}
Messages == {"x", "y"}

\* std::map<Handle, Observer*>: a function on the handles it holds
NoObservers == [h \in {} |-> "o1"]

\* std::map::insert({handle, observer}): no effect on a key already held
MapInsert(map, handle, observer) ==
    IF handle \in DOMAIN map
        THEN map
        ELSE [h \in DOMAIN map \cup {handle} |->
                  IF h = handle THEN observer ELSE map[h]]

\* std::map::erase(handle)
MapErase(map, handle) == [h \in DOMAIN map \ {handle} |-> map[h]]

\* begin() and ++iter of the map: the least key, the next key (0 is end())
MapBegin(map) ==
    IF DOMAIN map = {} THEN 0
    ELSE CHOOSE h \in DOMAIN map : \A g \in DOMAIN map : h <= g
MapNext(map, iter) ==
    IF \E h \in DOMAIN map : h > iter
        THEN CHOOSE h \in DOMAIN map :
                 h > iter /\ \A g \in DOMAIN map : g > iter => h <= g
        ELSE 0

\* connect(observer): the map and generator after it, the handle returned
connect(observers, counter, observer) ==
    LET h == LinearCreateHandle(counter) IN
    [observers |-> MapInsert(observers, h.ret, observer),
     counter |-> h.counter, ret |-> h.ret]

\* disconnect that erases the first entry of the map
disconnectFirst(observers, counter, handle) ==
    [observers |-> MapErase(observers, MapBegin(observers)),
     counter |-> counter]

\* disconnect that leaves the observer in the map
disconnectKeeping(observers, counter, handle) ==
    [observers |-> observers, counter |-> counter]

\* disconnect(handle): erases the entry; LinearHandleGenerator's
\* destroy_handle changes nothing
disconnect(observers, counter, handle) ==
    [observers |-> MapErase(observers, handle), counter |-> counter]

\* disconnect_all(): clears the map and resets the generator
disconnect_all(observers, counter) ==
    [observers |-> NoObservers, counter |-> LinearReset]

\* send(data): the loop from iter on; leaving is the set of handles whose
\* observer calls options.disconnect() when observing
RECURSIVE send_loop(_, _, _, _, _)
send_loop(observers, iter, data, leaving, calls) ==
    IF iter = 0
        THEN [observers |-> observers, calls |-> calls]
        ELSE LET call == [observer |-> observers[iter], handle |-> iter,
                          data |-> data,
                          disconn_ |-> iter \in leaving]
             IN  IF call.disconn_
                     THEN send_loop(MapErase(observers, iter),
                                    MapNext(observers, iter), data, leaving,
                                    Append(calls, call))
                     ELSE send_loop(observers, MapNext(observers, iter),
                                    data, leaving, Append(calls, call))

\* send that leaves in the map the observers that asked to disconnect
sendKeepingLeavers(observers, data, leaving) ==
    [observers |-> observers,
     calls |-> send_loop(observers, MapBegin(observers), data, leaving,
                         <<>>).calls]

\* send(data)
send(observers, data, leaving) ==
    send_loop(observers, MapBegin(observers), data, leaving, <<>>)

\* The last call: none yet
NoPipeOp == [op |-> "none", handle |-> 0, observer |-> "o1", data |-> "x",
             calls |-> <<>>, before |-> {}, old |-> FALSE]

prest == <<hvars, cvars, ivars, wvars, evars, svars, mvars, vvars, lvars>>

\* connect(observer)
Connect ==
    /\ pipeGen_ <= MaxConnects
    /\ \E observer \in Observers :
           LET r == connect(observers_, pipeGen_, observer) IN
           /\ observers_' = r.observers
           /\ pipeGen_' = r.counter
           /\ connected' = connected
                           \cup {[observer |-> observer, handle |-> r.ret]}
           /\ pLast' = [NoPipeOp EXCEPT !.op = "connect", !.handle = r.ret,
                                        !.observer = observer,
                                        !.before = connected]
    /\ UNCHANGED <<gone, earlier, prest>>

\* disconnect(handle); old: the caller got the handle from a connect made
\* before the last disconnect_all
Disconnect ==
    /\ \E handle \in 0..MaxConnects, old \in BOOLEAN :
           LET r == disconnect(observers_, pipeGen_, handle)
               undone == {c \in connected : c.handle = handle}
           IN
           /\ observers_' = r.observers
           /\ pipeGen_' = r.counter
           /\ connected' = connected \ undone
           /\ gone' = gone \cup {[observer |-> c.observer, by |-> "handle"]
                                     : c \in undone}
           /\ old => handle \in 1..earlier
           /\ pLast' = [NoPipeOp EXCEPT !.op = "disconnect",
                                        !.handle = handle, !.old = old,
                                        !.before = connected]
    /\ UNCHANGED <<earlier, prest>>

\* disconnect_all()
DisconnectAll ==
    /\ LET r == disconnect_all(observers_, pipeGen_) IN
           /\ observers_' = r.observers
           /\ pipeGen_' = r.counter
    /\ connected' = {}
    /\ earlier' = IF pipeGen_ - 1 > earlier THEN pipeGen_ - 1 ELSE earlier
    /\ gone' = gone \cup {[observer |-> c.observer, by |-> "all"]
                              : c \in connected}
    /\ pLast' = [NoPipeOp EXCEPT !.op = "disconnect_all",
                                 !.before = connected]
    /\ UNCHANGED prest

\* send(data); each observer called may call options.disconnect()
Send ==
    /\ \E data \in Messages, leaving \in SUBSET DOMAIN observers_ :
           LET r == send(observers_, data, leaving) IN
           /\ observers_' = r.observers
           /\ connected' = {c \in connected : c.handle \notin leaving}
           /\ gone' = gone \cup {[observer |-> c.observer, by |-> "options"]
                                     : c \in {d \in connected :
                                                  d.handle \in leaving}}
           /\ pLast' = [NoPipeOp EXCEPT !.op = "send", !.data = data,
                                        !.calls = r.calls,
                                        !.before = connected]
    /\ UNCHANGED <<pipeGen_, earlier, prest>>

PNext ==
    \/ Connect
    \/ Disconnect
    \/ DisconnectAll
    \/ Send

\* A SubjectPipe as constructed
PInit ==
    /\ observers_ = NoObservers
    /\ pipeGen_ = get_first_valid_handle
    /\ connected = {}
    /\ gone = {}
    /\ earlier = 0
    /\ pLast = NoPipeOp


-----------------------------------------------------------------------------
(* SignalManager (oki_observer.h)                                          *)

\* The subject types of the model
Subjects == {"A", "B"}

\* SignalManager::data_ with no pipe
NoPipes == [t \in {} |-> [observers |-> NoObservers, counter |-> 0]]

\* create_erased_pipe_<Subject>(): a SubjectPipe as constructed
create_erased_pipe_ ==
    [observers |-> NoObservers, counter |-> get_first_valid_handle]

\* SignalManager::connect<Subject>(observer): the pipe is made on first use
signal_connect(data, subject, observer) ==
    LET found == IF subject \in DOMAIN data
                     THEN data
                     ELSE [t \in DOMAIN data \cup {subject} |->
                               IF t = subject THEN create_erased_pipe_
                                              ELSE data[t]]
        r == connect(found[subject].observers, found[subject].counter,
                     observer)
    IN  [data |-> [found EXCEPT ![subject] =
                       [observers |-> r.observers, counter |-> r.counter]],
         ret |-> [handle_ |-> r.ret, type_ |-> subject]]

\* SignalManager::disconnect(handle): passed on to the pipe of handle.type_
signal_disconnect(data, handle) ==
    IF handle.type_ \in DOMAIN data
        THEN LET pipe == data[handle.type_]
                 r == disconnect(pipe.observers, pipe.counter,
                                 handle.handle_)
             IN  [data EXCEPT ![handle.type_] =
                      [observers |-> r.observers, counter |-> r.counter]]
        ELSE data

\* disconnect_all<Subject>() emptying every pipe
signal_disconnect_all_ofEvery(data, subject) ==
    [t \in DOMAIN data |-> [observers |-> NoObservers,
                            counter |-> LinearReset]]

\* SignalManager::disconnect_all<Subject>()
signal_disconnect_all_of(data, subject) ==
    IF subject \in DOMAIN data
        THEN LET pipe == data[subject]
                 r == disconnect_all(pipe.observers, pipe.counter)
             IN  [data EXCEPT ![subject] =
                      [observers |-> r.observers, counter |-> r.counter]]
        ELSE data

\* SignalManager::disconnect_all(): data_.clear()
signal_disconnect_all(data) == NoPipes

\* SignalManager::send<Subject>(msg), leaving as in SubjectPipe::send
signal_send(data, subject, msg, leaving) ==
    IF subject \in DOMAIN data
        THEN LET r == send(data[subject].observers, msg, leaving) IN
             [data |-> [data EXCEPT ![subject].observers = r.observers],
              calls |-> r.calls]
        ELSE [data |-> data, calls |-> <<>>]

\* The last call: none yet
NoSignalOp == [op |-> "none", subject |-> "A", handle |-> 0,
               observer |-> "o1", data |-> "x", calls |-> <<>>]

mrest == <<hvars, cvars, ivars, wvars, evars, svars, pvars, vvars, lvars>>

\* connect<Subject>(observer)
SignalConnect ==
    /\ \E subject \in Subjects, observer \in Observers :
           LET r == signal_connect(sigData_, subject, observer) IN
           /\ subject \in DOMAIN sigData_
                  => sigData_[subject].counter <= MaxSignals
           /\ sigData_' = r.data
           /\ sigConnected' = sigConnected
                              \cup {[subject |-> subject,
                                     observer |-> observer,
                                     handle |-> r.ret.handle_]}
           /\ mLast' = [NoSignalOp EXCEPT !.op = "connect",
                                          !.subject = subject,
                                          !.observer = observer,
                                          !.handle = r.ret.handle_]
    /\ UNCHANGED mrest

\* disconnect(handle)
SignalDisconnect ==
    /\ \E subject \in Subjects, h \in 0..MaxSignals :
           /\ sigData_' = signal_disconnect(sigData_, [handle_ |-> h,
                                                       type_ |-> subject])
           /\ sigConnected' = {c \in sigConnected :
                                   ~(c.subject = subject /\ c.handle = h)}
           /\ mLast' = [NoSignalOp EXCEPT !.op = "disconnect",
                                          !.subject = subject, !.handle = h]
    /\ UNCHANGED mrest

\* disconnect_all<Subject>()
SignalDisconnectAllOf ==
    /\ \E subject \in Subjects :
           /\ sigData_' = signal_disconnect_all_of(sigData_, subject)
           /\ sigConnected' = {c \in sigConnected : c.subject # subject}
           /\ mLast' = [NoSignalOp EXCEPT !.op = "disconnect_all_of",
                                          !.subject = subject]
    /\ UNCHANGED mrest

\* disconnect_all()
SignalDisconnectAll ==
    /\ sigData_' = signal_disconnect_all(sigData_)
    /\ sigConnected' = {}
    /\ mLast' = [NoSignalOp EXCEPT !.op = "disconnect_all"]
    /\ UNCHANGED mrest

\* send<Subject>(msg); each observer called may call options.disconnect()
SignalSend ==
    /\ \E subject \in Subjects, msg \in Messages,
          leaving \in SUBSET (1..MaxSignals) :
           LET r == signal_send(sigData_, subject, msg, leaving) IN
           /\ leaving \subseteq
                  (IF subject \in DOMAIN sigData_
                       THEN DOMAIN sigData_[subject].observers ELSE {})
           /\ sigData_' = r.data
           /\ sigConnected' = {c \in sigConnected :
                                   ~(c.subject = subject
                                         /\ c.handle \in leaving)}
           /\ mLast' = [NoSignalOp EXCEPT !.op = "send",
                                          !.subject = subject,
                                          !.data = msg, !.calls = r.calls]
    /\ UNCHANGED mrest

MNext ==
    \/ SignalConnect
    \/ SignalDisconnect
    \/ SignalDisconnectAllOf
    \/ SignalDisconnectAll
    \/ SignalSend

\* A SignalManager as constructed
MInit ==
    /\ sigData_ = NoPipes
    /\ sigConnected = {}
    /\ mLast = NoSignalOp

-----------------------------------------------------------------------------
(* C32: SignalManager keeps subject types apart                            *)

\* The connections of one subject type
ConnectedFor(subject) == {c \in sigConnected : c.subject = subject}

\* The pipes of every subject type but the given one are as they were
OtherPipesKept(subject) ==
    \A t \in DOMAIN sigData_ \ {subject} :
        t \in DOMAIN sigData_' /\ sigData_'[t] = sigData_[t]

\* C32: send<S>(x) calls each observer connected for S once, with x, and
\* nobody else (the number of calls is the number of connections for S);
\* it leaves the pipes of the other subject types alone.
\* disconnect_all<S>() empties the pipe of S and leaves the pipes of the
\* other subject types, observers and handle counters, as they were.
C32_SubjectFrame ==
    [][/\ mLast'.op = "send" =>
           /\ Len(mLast'.calls) = Cardinality(ConnectedFor(mLast'.subject))
           /\ \A c \in ConnectedFor(mLast'.subject) :
                  Cardinality({i \in 1..Len(mLast'.calls) :
                                   /\ mLast'.calls[i].handle = c.handle
                                   /\ mLast'.calls[i].observer = c.observer
                                   /\ mLast'.calls[i].data = mLast'.data}) = 1
           /\ OtherPipesKept(mLast'.subject)
       /\ mLast'.op = "disconnect_all_of" =>
           /\ mLast'.subject \in DOMAIN sigData_
                  => sigData_'[mLast'.subject].observers = NoObservers
           /\ OtherPipesKept(mLast'.subject)
           /\ \A t \in Subjects \ {mLast'.subject} :
                  {c \in sigConnected' : c.subject = t} = ConnectedFor(t)
       /\ \A t \in DOMAIN sigData_' :
              /\ DOMAIN sigData_'[t].observers
                     = {c.handle : c \in {d \in sigConnected' : d.subject = t}}
              /\ \A c \in sigConnected' :
                     c.subject = t
                         => sigData_'[t].observers[c.handle] = c.observer
      ]_vars

\* A message of subject A was sent while observers of both subjects were
\* connected, and one observer was called
C32_Witness ==
    /\ mLast.op = "send" /\ mLast.subject = "A"
    /\ Len(mLast.calls) = 1 /\ ~mLast.calls[1].disconn_
    /\ \E c \in sigConnected : c.subject = "B"
    /\ \E c \in sigConnected : c.subject = "A"

-----------------------------------------------------------------------------
(* C38: the tables get_component_view creates                              *)

\* C38: get_component_view<Types...>() creates tables for the types in
\* Types... only: every table there afterwards was there before the call
\* or is the table of one of the types named.
C38_ViewCreatesNamedOnly ==
    [][lastOp'.op = "get_component_view"
           => DOMAIN data_' \subseteq
                  (DOMAIN data_
                       \cup {lastOp'.types[i] : i \in 1..Len(lastOp'.types)})
      ]_vars

-----------------------------------------------------------------------------
(* C35: the reference bind_component_unchecked returns                     *)

\* C35: the reference returned by bind_component_unchecked(e, v) refers to
\* the component get_component<T>(e) returns afterwards (the same element
\* of the table, holding v), also when e already had a component of that
\* type; a value written through the reference is what get_component<T>(e)
\* returns next.
C35_UncheckedReference ==
    lastOp.op \in {"bind_unchecked", "write"}
        => /\ find(data_[lastOp.types[1]], lastOp.entity) = lastOp.iter
           /\ get_component(data_, lastOp.types[1], lastOp.entity)
                  = lastOp.value

\* A value was written through the reference returned for an entity that
\* already had a component of the type, holding another value
C35_Witness ==
    /\ lastOp.op = "write"
    /\ lastOp.ok
    /\ lastOp.value = "v1"
    /\ \E i \in 1..Len(data_["int"]) :
           /\ i # lastOp.iter
           /\ KeyOf(data_["int"][i]) = lastOp.entity
           /\ ValOf(data_["int"][i]) = "v0"

-----------------------------------------------------------------------------
(* C37: for_each on an empty first table                                   *)

\* C37: for_each and ComponentView::for_each never read outside a table's
\* bounds: a query whose containers all exist runs to its end, and calls
\* back nothing when the table of its first type is empty.
C37_NoReadPastEnd ==
    (lastOp.op \in {"for_each", "view_for_each"} /\ lastOp.ok)
        => /\ ~lastOp.crashed
           /\ data_[lastOp.types[1]] = <<>> => lastOp.calls = <<>>

-----------------------------------------------------------------------------
(* C33: termination and the cursors of variadic_set_intersection           *)

\* Some cursor is at the end of its table
AtEnd == \E i \in 1..Len(tabs) : isCur[i] = Len(tabs[i]) + 1

\* C33: variadic_set_intersection terminates on all finite sorted tables
\* (a call that has entered its loop comes to its return); the cursor of
\* each table only ever moves forward and never past the end of its table;
\* and the loop stops as soon as a cursor reaches the end of its table: the
\* first test of status that finds a cursor at the end returns, with no
\* further callback, and the loop returns in no other case.
C33_TerminatesMovingForward ==
    /\ (isPc = "loop") ~> (isPc = "done")
    /\ [][isPc = "loop" =>
             /\ \A i \in 1..Len(tabs) :
                    /\ isCur'[i] >= isCur[i]
                    /\ isCur'[i] <= Len(tabs[i]) + 1
             /\ isIdx = Len(tabs) + 1
                    => /\ AtEnd <=> isPc' = "done"
                       /\ AtEnd => isRes' = isRes
             /\ isIdx <= Len(tabs) => isPc' = "loop" /\ isRes' = isRes
         ]_vars

\* A call on two tables has ended after a callback, one table read to its
\* end and the other not
C33_Witness ==
    /\ isPc = "done" /\ ~isRes.crashed
    /\ Len(tabs) = 2
    /\ Len(isRes.calls) >= 1
    /\ \E i \in 1..2 : isCur[i] = Len(tabs[i]) + 1
    /\ \E i \in 1..2 : isCur[i] <= Len(tabs[i]) /\ isCur[i] > 1

-----------------------------------------------------------------------------
(* C34: the append without binary search                                   *)

\* The key of the last insertion was greater than every key of the vector
Maximal == \A i \in 1..Len(vLast.before) : KeyOf(vLast.before[i]) < vLast.key

Insertions == {"emplace", "insert", "insert_or_assign",
               "emplace_unchecked", "insert_unchecked"}

-----------------------------------------------------------------------------
(* ComponentManager: the unchecked binding (oki_component.h)               *)

\* bind_component_unchecked(entity, value), which forwards to
\* emplace_component_unchecked<Type>(entity, value): data_ afterwards and
\* the returned reference (the position of the component it refers to)
bind_component_unchecked(data, type, entity, value) ==
    LET created == get_or_create_cont_(data, type)
        iter    == emplace_unchecked(created[type], entity, value)
    IN  [data |-> [created EXCEPT ![type] = iter.table], ref |-> iter.iter]

\* bind_component_unchecked(entity, value)
BindComponentUnchecked ==
    /\ Running
    /\ \E type \in Types, entity \in Entities : \E value \in Values[type] :
           LET r == bind_component_unchecked(data_, type, entity, value) IN
           /\ TotalComponents(data_, DOMAIN data_) < MaxRows
           /\ data_' = r.data
           /\ bound' = bound \cup {<<type, entity>>}
           /\ lastOp' = [NoOp EXCEPT !.op = "bind_unchecked",
                                     !.types = <<type>>, !.entity = entity,
                                     !.value = value, !.iter = r.ref,
                                     !.ok = has_component(data_, type,
                                                          entity)]
    /\ UNCHANGED <<handGen_, hvars, ivars, xvars>>

\* comp = value, comp being the reference bind_component_unchecked has just
\* returned
WriteComponent ==
    /\ Running
    /\ lastOp.op = "bind_unchecked"
    /\ \E value \in Values[lastOp.types[1]] :
           /\ data_' = [data_ EXCEPT ![lastOp.types[1]][lastOp.iter] =
                            <<KeyOf(@), value>>]
           /\ lastOp' = [lastOp EXCEPT !.op = "write", !.value = value]
    /\ UNCHANGED <<handGen_, bound, hvars, ivars, xvars>>

UNext ==
    \/ CreateEntity
    \/ RemoveComponent
    \/ BindComponentUnchecked
    \/ WriteComponent

-----------------------------------------------------------------------------
(* The specifications.  Each one runs its own part of the state; the other *)
(* parts stay as constructed.                                              *)

\* The parts of the state a specification does not run, as constructed
EIdle ==
    /\ small = TRUE
    /\ holders = [k \in Holders |-> NoHolder]
    /\ objects = <<>>
    /\ eLast = NoErasedOp

XInit ==
    /\ view = NoView
    /\ EIdle
    /\ SInit
    /\ PInit
    /\ MInit
    /\ VInit
    /\ LInit

PipeInit ==
    /\ kind = "Linear" /\ counter_ = get_first_valid_handle
    /\ deletedHandles_ = <<>> /\ invalidHandles_ = {}
    /\ live = {} /\ misused = {} /\ destroyed = {}
    /\ given = {} /\ retired = <<>>
    /\ fresh = TRUE /\ issued = <<>>
    /\ hLast = NoCall /\ hPrev = NoCall
    /\ CInit
    /\ tabs = <<<<>>>> /\ isPc = "ready" /\ isRes = NoResult
    /\ view = NoView
    /\ EIdle
    /\ SInit
    /\ PInit
    /\ MInit
    /\ VInit
    /\ LInit

SignalInit ==
    /\ kind = "Linear" /\ counter_ = get_first_valid_handle
    /\ deletedHandles_ = <<>> /\ invalidHandles_ = {}
    /\ live = {} /\ misused = {} /\ destroyed = {}
    /\ given = {} /\ retired = <<>>
    /\ fresh = TRUE /\ issued = <<>>
    /\ hLast = NoCall /\ hPrev = NoCall
    /\ CInit
    /\ tabs = <<<<>>>> /\ isPc = "ready" /\ isRes = NoResult
    /\ view = NoView
    /\ EIdle
    /\ SInit
    /\ PInit
    /\ MInit
    /\ VInit
    /\ LInit

VectorInit ==
    /\ kind = "Linear" /\ counter_ = get_first_valid_handle
    /\ deletedHandles_ = <<>> /\ invalidHandles_ = {}
    /\ live = {} /\ misused = {} /\ destroyed = {}
    /\ given = {} /\ retired = <<>>
    /\ fresh = TRUE /\ issued = <<>>
    /\ hLast = NoCall /\ hPrev = NoCall
    /\ CInit
    /\ tabs = <<<<>>>> /\ isPc = "ready" /\ isRes = NoResult
    /\ view = NoView
    /\ EIdle
    /\ SInit
    /\ PInit
    /\ MInit
    /\ VInit
    /\ LInit

SysInit ==
    /\ kind = "Linear" /\ counter_ = get_first_valid_handle
    /\ deletedHandles_ = <<>> /\ invalidHandles_ = {}
    /\ live = {} /\ misused = {} /\ destroyed = {}
    /\ given = {} /\ retired = <<>>
    /\ fresh = TRUE /\ issued = <<>>
    /\ hLast = NoCall /\ hPrev = NoCall
    /\ CInit
    /\ tabs = <<<<>>>> /\ isPc = "ready" /\ isRes = NoResult
    /\ view = NoView
    /\ EIdle
    /\ SInit
    /\ PInit
    /\ MInit
    /\ VInit
    /\ LInit

ErasedInit ==
    /\ kind = "Linear" /\ counter_ = get_first_valid_handle
    /\ deletedHandles_ = <<>> /\ invalidHandles_ = {}
    /\ live = {} /\ misused = {} /\ destroyed = {}
    /\ given = {} /\ retired = <<>>
    /\ fresh = TRUE /\ issued = <<>>
    /\ hLast = NoCall /\ hPrev = NoCall
    /\ CInit
    /\ tabs = <<<<>>>> /\ isPc = "ready" /\ isRes = NoResult
    /\ view = NoView
    /\ EInit
    /\ SInit
    /\ PInit
    /\ MInit
    /\ VInit
    /\ LInit

HandleInit ==
    /\ HInit
    /\ CInit
    /\ tabs = <<<<>>>> /\ isPc = "ready" /\ isRes = NoResult
    /\ XInit

StoreInit ==
    /\ kind = "Linear" /\ counter_ = get_first_valid_handle
    /\ deletedHandles_ = <<>> /\ invalidHandles_ = {}
    /\ live = {} /\ misused = {} /\ destroyed = {}
    /\ given = {} /\ retired = <<>>
    /\ fresh = TRUE /\ issued = <<>>
    /\ hLast = NoCall /\ hPrev = NoCall
    /\ CInit
    /\ tabs = <<<<>>>> /\ isPc = "ready" /\ isRes = NoResult
    /\ XInit

IsectInit ==
    /\ kind = "Linear" /\ counter_ = get_first_valid_handle
    /\ deletedHandles_ = <<>> /\ invalidHandles_ = {}
    /\ live = {} /\ misused = {} /\ destroyed = {}
    /\ given = {} /\ retired = <<>>
    /\ fresh = TRUE /\ issued = <<>>
    /\ hLast = NoCall /\ hPrev = NoCall
    /\ CInit
    /\ IInit
    /\ XInit

HandleSpec == HandleInit /\ [][HNext]_vars

Spec == StoreInit /\ [][CNext]_vars

IsectSpec == IsectInit /\ [][INext]_vars

ViewSpec == StoreInit /\ [][VNext]_vars

ErasedSpec == ErasedInit /\ [][ENext]_vars

RawSpec == ErasedInit /\ [][RNext]_vars

SysSpec == SysInit /\ [][SNext]_vars

PipeSpec == PipeInit /\ [][PNext]_vars

SignalSpec == SignalInit /\ [][MNext]_vars

VectorSpec == VectorInit /\ [][VNextVector]_vars

UncheckedSpec == StoreInit /\ [][UNext]_vars

\* variadic_set_intersection is a sequential loop: a call that has begun
\* takes its next step
IsectLoopSpec ==
    /\ StoreInit
    /\ [][LNext]_vars
    /\ WF_vars(StepPair)
    /\ WF_vars(TestStatus)

\* step() and run() are sequential loops: once a pass has returned the next
\* one is taken (the step functions of the systems are taken to return)
SysLiveSpec ==
    /\ SysInit
    /\ [][SNext]_vars
    /\ WF_vars(StepPass)
    /\ WF_vars(RunLoop)

-----------------------------------------------------------------------------
(* Properties                                                              *)

StrictlyIncreasing(keys) ==
    \A i \in 1..(Len(keys) - 1) : keys[i] < keys[i + 1]

\* C1: After every bind (emplace, insert), bind_or_assign (insert_or_assign),
\* remove (erase) and erase_components<T> (clear), the keys of every table
\* are strictly increasing from begin() to end(): no key appears twice.
C1_TablesSorted ==
    \A type \in DOMAIN data_ : StrictlyIncreasing(KeysOf(data_[type]))

\* C1 witness: a bind has just inserted a pair in front of two others.
C1_Witness ==
    /\ lastOp.op = "bind"
    /\ lastOp.ok
    /\ Len(data_[lastOp.types[1]]) = 3
    /\ lastOp.iter < 3

\* The keys that are in every table
CommonKeys(tables) ==
    {k \in KeySet(tables[1]) : \A i \in 1..Len(tables) : k \in KeySet(tables[i])}

\* C2: On k >= 1 tables with strictly increasing keys,
\* variadic_set_intersection invokes the callback exactly once for each key
\* that is in all k tables, in strictly increasing key order, with that key's
\* row of every table, and for no other key.
C2_IntersectionExact ==
    isPc = "done" =>
        /\ Len(isRes.calls) = Cardinality(CommonKeys(tabs))
        /\ \A c \in 1..Len(isRes.calls) :
               /\ KeyOf(isRes.calls[c][1]) = SortedSeq(CommonKeys(tabs))[c]
               /\ \A i \in 1..Len(tabs) :
                      /\ KeyOf(isRes.calls[c][i]) = KeyOf(isRes.calls[c][1])
                      /\ \E j \in 1..Len(tabs[i]) :
                             tabs[i][j] = isRes.calls[c][i]

\* C2 witness: three tables were intersected, two keys were reported, and a
\* key of the first table that is not in all of them was passed over.
C2_Witness ==
    /\ isPc = "done"
    /\ Len(tabs) = 3
    /\ Len(isRes.calls) = 2
    /\ KeySet(tabs[1]) # CommonKeys(tabs)
    /\ KeySet(tabs[2]) # KeySet(tabs[3])

\* C2, through the ComponentManager: for_each over k existing tables invokes
\* the callback exactly once for each entity that has a component of every
\* named type, in increasing order of the entity's handle, with the
\* components bound to it.  (Checked under Spec; for_each leaves data_ alone,
\* so the tables after the call are the tables it ran on.)
C2_ForEachExact ==
    (lastOp.op = "for_each" /\ lastOp.ok) =>
        LET tables == [i \in 1..Len(lastOp.types) |-> data_[lastOp.types[i]]]
        IN  /\ Len(lastOp.calls) = Cardinality(CommonKeys(tables))
            /\ \A c \in 1..Len(lastOp.calls) :
                   /\ lastOp.calls[c].entity = SortedSeq(CommonKeys(tables))[c]
                   /\ \A i \in 1..Len(tables) :
                          lastOp.calls[c].comps[i]
                              = get_component(data_, lastOp.types[i],
                                              lastOp.calls[c].entity)

\* C3: bind_component(e, v) on an entity that already has a component of
\* v's type leaves the stored value and the number of components of that
\* type unchanged, returns inserted = false, and returns a reference to the
\* component that was already stored.
C3_BindKeepsPresent ==
    [][ (lastOp'.op = "bind"
            /\ has_component(data_, lastOp'.types[1], lastOp'.entity))
        => LET type   == lastOp'.types[1]
               entity == lastOp'.entity
           IN  /\ get_component(data_', type, entity)
                      = get_component(data_, type, entity)
               /\ num_components(data_', type) = num_components(data_, type)
               /\ ~lastOp'.ok
               /\ lastOp'.iter = find(data_'[type], entity)
               /\ lastOp'.iter <= Len(data_'[type])
               /\ data_' = data_
      ]_vars

\* C3 witness: a bind of a value other than the stored one was rejected.
C3_Witness ==
    /\ lastOp.op = "bind"
    /\ ~lastOp.ok
    /\ get_component(data_, lastOp.types[1], lastOp.entity) # lastOp.value

\* C4: bind_or_assign_component(e, v) adds the component and returns
\* inserted = true when e has no component of v's type; otherwise it
\* overwrites the stored value and returns inserted = false without changing
\* the number of components.  Either way get_component(e) is v afterwards.
C4_BindOrAssign ==
    [][ lastOp'.op = "bind_or_assign"
        => LET type   == lastOp'.types[1]
               entity == lastOp'.entity
               had    == has_component(data_, type, entity)
           IN  /\ lastOp'.ok = ~had
               /\ num_components(data_', type)
                      = num_components(data_, type) + (IF had THEN 0 ELSE 1)
               /\ has_component(data_', type, entity)
               /\ get_component(data_', type, entity) = lastOp'.value
               /\ KeyOf(data_'[type][lastOp'.iter]) = entity
      ]_vars

\* C4 witness: bind_or_assign has just overwritten a component in a table
\* of several.
C4_Witness ==
    /\ lastOp.op = "bind_or_assign"
    /\ ~lastOp.ok
    /\ lastOp.value = "v1"
    /\ Len(data_[lastOp.types[1]]) >= 2

\* C5: for_each<T1..Tk> called while some Ti has no table invokes the
\* callback zero times and creates no table: the registered types are the
\* same before and after.
C5_ForEachMissingTable ==
    [][ (lastOp'.op = "for_each"
            /\ \E i \in 1..Len(lastOp'.types) :
                   lastOp'.types[i] \notin Registered(data_))
        => /\ lastOp'.calls = <<>>
           /\ ~lastOp'.crashed
           /\ Registered(data_') = Registered(data_)
           /\ data_' = data_
      ]_vars

\* C5 witness: a query over two types ran, the first with components, the
\* second without a table.
C5_Witness ==
    /\ lastOp.op = "for_each"
    /\ Len(lastOp.types) = 2
    /\ lastOp.types[1] \in Registered(data_)
    /\ data_[lastOp.types[1]] # <<>>
    /\ lastOp.types[2] \notin Registered(data_)

\* C6 as claimed: on each of the three generators, under any sequence of
\* create and destroy calls with any handle arguments, create never returns
\* a handle that an earlier create returned and that has not been destroyed
\* since.
C6_UniqueUnderAnyDestroy ==
    [][ hLast'.op = "create" => hLast'.ret \notin live ]_vars

\* C6 amended: the same on the Linear and the Debug generator; on the Reuse
\* generator it holds as long as destroy has only been called on live
\* handles.
C6_UniqueAmongLive ==
    [][ (hLast'.op = "create" /\ (kind = "Reuse" => misused = {}))
        => hLast'.ret \notin live ]_vars

\* C6 witness: the Reuse generator, used properly, has reissued a destroyed
\* handle while another handle is live.
C6_Witness ==
    /\ kind = "Reuse"
    /\ misused = {}
    /\ hPrev.op = "destroy"
    /\ hLast.op = "create"
    /\ hLast.ret = hPrev.arg
    /\ Cardinality(live) >= 2

\* C7 as claimed: on each of the three generators, under any sequence of
\* create, destroy and reset calls with any handle arguments, create never
\* returns the invalid handle and verify_handle(invalid handle) is false.
C7_NeverInvalid ==
    /\ hLast.op = "create" => ~is_bad_handle(hLast.ret)
    /\ ~VerifyHandle(get_invalid_handle_constant)

\* C7 amended: verify_handle(invalid handle) is false on all three; create
\* never returns the invalid handle on the Linear and the Debug generator,
\* and on the Reuse generator as long as the invalid handle has not been
\* passed to destroy since the last reset.
C7_NeverInvalidAmended ==
    /\ (hLast.op = "create"
           /\ (kind = "Reuse" => get_invalid_handle_constant \notin misused))
       => ~is_bad_handle(hLast.ret)
    /\ ~VerifyHandle(get_invalid_handle_constant)

\* C7 witness: the Reuse generator was handed a handle it never issued, and
\* the create after it returned that handle, not the invalid one.
C7_Witness ==
    /\ kind = "Reuse"
    /\ hPrev.op = "destroy"
    /\ hPrev.arg \in misused
    /\ hLast.op = "create"
    /\ hLast.ret = hPrev.arg
    /\ get_invalid_handle_constant \notin misused

\* C8: On a freshly constructed generator of any kind, the handles returned
\* by N consecutive create calls with no other call in between are pairwise
\* distinct and none is the invalid handle.
C8_FreshCreatesDistinct ==
    fresh =>
        /\ \A i, j \in 1..Len(issued) : i # j => issued[i] # issued[j]
        /\ \A i \in 1..Len(issued) : ~is_bad_handle(issued[i])

\* C8 witness: three creates in a row on a fresh generator.
C8_Witness ==
    /\ fresh
    /\ Len(issued) = 3

\* C9: On the Debug generator destroy(h) returns true exactly when h was
\* issued since the last reset and has not been destroyed since: false for a
\* second destroy, for a handle never issued and for the invalid handle.  A
\* handle destroyed since the last reset is not returned by a later create.
C9_DebugDestroy ==
    [][ /\ (kind = "Debug" /\ hLast'.op = "destroy")
            => /\ hLast'.ok = (hLast'.arg \in live)
               /\ is_bad_handle(hLast'.arg) => ~hLast'.ok
               /\ hLast'.arg \in destroyed => ~hLast'.ok
               /\ hLast'.arg >= counter_ => ~hLast'.ok
        /\ (kind = "Debug" /\ hLast'.op = "create")
            => hLast'.ret \notin destroyed
      ]_vars

\* C9 witness: the Debug generator accepted destroy(h) and refused the
\* destroy(h) after it.
C9_Witness ==
    /\ kind = "Debug"
    /\ hPrev.op = "destroy" /\ hPrev.ok
    /\ hLast.op = "destroy" /\ ~hLast.ok
    /\ hLast.arg = hPrev.arg

\* C10: On the Reuse generator, whenever the pool holds a destroyed handle,
\* create returns a pooled handle, removes it from the pool and leaves the
\* counter alone; create giving h, destroy(h), create gives h again.
C10_ReuseServesPool ==
    [][ (kind = "Reuse" /\ hLast'.op = "create")
        => /\ deletedHandles_ # <<>>
               => /\ \E i \in 1..Len(deletedHandles_) :
                         /\ deletedHandles_[i] = hLast'.ret
                         /\ deletedHandles_' = RemoveAt(deletedHandles_, i)
                  /\ counter_' = counter_
           /\ (hPrev.op = "create" /\ hLast.op = "destroy"
                  /\ hLast.arg = hPrev.ret)
               => hLast'.ret = hPrev.ret
      ]_vars

\* C10 witness: create gave h, destroy(h) followed, and the next create gave
\* h again with the counter where it was.
C10_Witness ==
    /\ kind = "Reuse"
    /\ hPrev.op = "destroy"
    /\ hLast.op = "create"
    /\ hLast.ret = hPrev.arg
    /\ deletedHandles_ = <<>>
    /\ counter_ = hLast.ret + 1

-----------------------------------------------------------------------------
(* C11 (as stated): on the Reuse generator the pool is served first-in:   *)
(* when h1 was destroyed before h2 (each while live, so that no handle    *)
(* waits twice) and neither has been handed out again,                    *)
(* the next create returns h1 (and, h1 being handed out, the one after it *)
(* returns h2): every create that finds destroyed handles waiting returns *)
(* the one destroyed earliest.                                            *)
C11_ServedFirstIn ==
    [][ (kind = "Reuse" /\ hLast'.op = "create" /\ retired # <<>>
            /\ misused = {})
        => hLast'.ret = Head(retired) ]_vars

(* C11 (amended): on the Reuse generator the pool is served last-in       *)
(* first-out: destroy puts the handle at the front of the pool and create *)
(* takes the front, so when h1 was destroyed before h2, each while live,  *)
(* and neither has been handed out again, the next create returns h2 and  *)
(* the one after it returns h1: every create that finds destroyed handles *)
(* waiting returns the one destroyed latest.                              *)
C11_ServedLastIn ==
    [][ /\ (kind = "Reuse" /\ hLast'.op = "create" /\ deletedHandles_ # <<>>)
            => /\ hLast'.ret = Head(deletedHandles_)
               /\ deletedHandles_' = Tail(deletedHandles_)
               /\ counter_' = counter_
        /\ (kind = "Reuse" /\ hLast'.op = "create" /\ retired # <<>>
                /\ misused = {})
            => hLast'.ret = retired[Len(retired)]
        /\ (kind = "Reuse" /\ hLast'.op = "destroy")
            => deletedHandles_' = <<hLast'.arg>> \o deletedHandles_
        /\ (kind = "Reuse" /\ hLast'.op = "create"
                /\ hLast.op = "destroy" /\ hPrev.op = "destroy")
            => hLast'.ret = hLast.arg ]_vars

\* two different live handles were destroyed one after the other and the
\* following create returned the second of them
C11_Witness ==
    /\ kind = "Reuse"
    /\ hLast.op = "create"
    /\ hPrev.op = "destroy"
    /\ hLast.ret = hPrev.arg
    /\ misused = {}
    /\ Len(retired) = 1
    /\ retired[1] # hLast.ret
    /\ retired[1] < hLast.ret

(* C12 (as stated): on the Reuse generator destroy returns false for the  *)
(* invalid constant and for a handle that create has never returned.      *)
C12_ReuseDestroyReports ==
    (kind = "Reuse" /\ hLast.op = "destroy"
        /\ (is_bad_handle(hLast.arg) \/ hLast.arg \notin given))
    => ~hLast.ok

(* C12 (amended): on the Reuse generator destroy detects neither the      *)
(* invalid constant nor a handle that was never issued: it returns true   *)
(* for every argument (it could return false only when the pool fails to  *)
(* allocate) and puts the argument at the front of the pool.              *)
C12_ReuseDestroyAccepts ==
    (kind = "Reuse" /\ hLast.op = "destroy")
    => /\ hLast.ok
       /\ deletedHandles_ # <<>>
       /\ Head(deletedHandles_) = hLast.arg

\* the invalid constant and a never issued handle were both destroyed
C12_Witness ==
    /\ kind = "Reuse"
    /\ hLast.op = "destroy" /\ is_bad_handle(hLast.arg) /\ hLast.ok
    /\ hPrev.op = "destroy" /\ ~is_bad_handle(hPrev.arg)
    /\ hPrev.arg \notin given
    /\ deletedHandles_ = <<hLast.arg, hPrev.arg>>

(* C13: reset() puts each of the three generators in the state of a       *)
(* freshly constructed one: the counter is the first valid handle and the *)
(* pool and the set of destroyed handles are empty, so the next create    *)
(* returns the first valid handle, verify is false for every handle       *)
(* (those issued before the reset included) and on the Debug generator    *)
(* destroy of any of them returns false.                                  *)
C13_ResetIsFresh ==
    [][ /\ hLast'.op = "reset"
            => /\ counter_' = get_first_valid_handle
               /\ deletedHandles_' = <<>>
               /\ invalidHandles_' = {}
               /\ \A h \in HandleArgs : ~(VerifyHandle(h))'
               /\ \A h \in HandleArgs :
                     ~DebugDestroyHandle(counter_', invalidHandles_', h).ret
        /\ (hLast.op = "reset" /\ hLast'.op = "create")
            => hLast'.ret = get_first_valid_handle
        /\ (hLast.op = "reset" /\ hLast'.op = "destroy" /\ kind = "Debug")
            => ~hLast'.ok ]_vars

\* a reset of a Debug generator that had issued 1 and 2 and had just
\* destroyed 2
C13_Witness ==
    /\ kind = "Debug"
    /\ hLast.op = "reset"
    /\ hPrev.op = "destroy" /\ hPrev.arg = 2 /\ hPrev.ok
    /\ counter_ = get_first_valid_handle

(* C14 (as stated): on all three generators verify(h) is true for every   *)
(* handle issued since the last reset and not destroyed and false for     *)
(* every value not yet issued; on Reuse and Debug it is also false for a  *)
(* handle that was destroyed and has not been issued again.               *)
C14_Verify ==
    /\ \A h \in live : VerifyHandle(h)
    /\ \A h \in HandleArgs \ given : ~VerifyHandle(h)
    /\ kind \in {"Reuse", "Debug"}
        => \A h \in given \ live : ~VerifyHandle(h)

(* C14 (amended): the same, except that on the Reuse generator verify(h)  *)
(* is true for every issued and not destroyed handle only as long as      *)
(* destroy has been called on live handles only since the last reset: a   *)
(* handle destroyed twice, or destroyed before it was issued, can be      *)
(* issued while a copy of it is still in the pool, and verify is then     *)
(* false for it.                                                          *)
C14_VerifyAmended ==
    /\ (kind = "Reuse" => misused = {})
        => \A h \in live : VerifyHandle(h)
    /\ \A h \in HandleArgs \ given : ~VerifyHandle(h)
    /\ kind \in {"Reuse", "Debug"}
        => \A h \in given \ live : ~VerifyHandle(h)

\* a Reuse generator, used properly, with a live handle, a destroyed one
\* that has not been issued again and a value not yet issued
C14_Witness ==
    /\ kind = "Reuse"
    /\ misused = {}
    /\ live # {}
    /\ given \ live # {}
    /\ hLast.op = "destroy"
    /\ \E h \in HandleArgs \ given : ~is_bad_handle(h)

-----------------------------------------------------------------------------
\* Every entity value of the model
AllEntities == 0..MaxEntity

\* The tables of the types other than type are the same in before and after
OtherTablesSame(before, after, type) ==
    \A t \in Types \ {type} :
        /\ t \in DOMAIN before <=> t \in DOMAIN after
        /\ t \in DOMAIN before => after[t] = before[t]

(* C15: get_component_checked<T>(e) returns a pointer exactly when        *)
(* has_component<T>(e) is true, which is exactly when a T was bound to e  *)
(* and not removed or cleared since; the pointer is to e's component.     *)
(* Neither call changes data_, so absence (T without a table, T bound to  *)
(* other entities only, e with other types only) is reported without a    *)
(* table being created.                                                   *)
C15_CheckedLookup ==
    [][ /\ lastOp'.op = "get_component_checked"
            => LET type == lastOp'.types[1]  entity == lastOp'.entity
               IN  /\ lastOp'.ok <=> has_component(data_, type, entity)
                   /\ lastOp'.ok <=> <<type, entity>> \in bound
                   /\ lastOp'.ok
                       => lastOp'.value = get_component(data_, type, entity)
                   /\ data_' = data_
        /\ lastOp'.op = "has_component"
            => LET type == lastOp'.types[1]  entity == lastOp'.entity
               IN  /\ lastOp'.ok
                       <=> ~get_component_checked(data_, type, entity).null
                   /\ lastOp'.ok <=> <<type, entity>> \in bound
                   /\ data_' = data_ ]_vars

\* get_component_checked<T>(e) returned nullptr while T has a table that
\* holds components of entities on both sides of e, and e has a component
\* of another type
C15_Witness ==
    /\ lastOp.op = "get_component_checked"
    /\ ~lastOp.ok
    /\ lastOp.types[1] \in Registered(data_)
    /\ \E a, b \in KeySet(data_[lastOp.types[1]]) :
           a < lastOp.entity /\ lastOp.entity < b
    /\ \E t \in Types \ {lastOp.types[1]} :
           has_component(data_, t, lastOp.entity)

(* C16: remove_component<T>(e) returns true exactly when e has a T.       *)
(* After true e has no T, every other entity's T component and every      *)
(* other table are as before; after false data_ is as before.             *)
C16_Remove ==
    [][ lastOp'.op = "remove"
        => LET type == lastOp'.types[1]  entity == lastOp'.entity
           IN  /\ lastOp'.ok <=> has_component(data_, type, entity)
               /\ lastOp'.ok
                   => /\ ~has_component(data_', type, entity)
                      /\ Registered(data_') = Registered(data_)
                      /\ \A e \in AllEntities \ {entity} :
                            get_component_checked(data_', type, e)
                                = get_component_checked(data_, type, e)
                      /\ num_components(data_', type)
                            = num_components(data_, type) - 1
                      /\ OtherTablesSame(data_, data_', type)
               /\ ~lastOp'.ok => data_' = data_ ]_vars

\* a component was removed from between the components of two other
\* entities
C16_Witness ==
    /\ lastOp.op = "remove"
    /\ lastOp.ok
    /\ \E a, b \in KeySet(data_[lastOp.types[1]]) :
           a < lastOp.entity /\ lastOp.entity < b

(* C17: erase_components<T>() leaves no T component (num_components<T>() *)
(* is 0 and has_component<T>(e) is false for every e) and leaves the      *)
(* tables of the other types as they were; when T has no table it leaves  *)
(* data_ as it was and creates no table.                                  *)
C17_EraseOfType ==
    [][ lastOp'.op = "erase_components_of"
        => LET type == lastOp'.types[1]
           IN  /\ num_components(data_', type) = 0
               /\ \A e \in AllEntities : ~has_component(data_', type, e)
               /\ OtherTablesSame(data_, data_', type)
               /\ type \notin Registered(data_) => data_' = data_ ]_vars

\* erase_components<T>() destroyed two components of T while another type
\* has components
C17_Witness ==
    /\ lastOp.op = "erase_components_of"
    /\ lastOp.count >= 2
    /\ \E t \in Types \ {lastOp.types[1]} : num_components(data_, t) >= 1

(* C18 (as stated): once a table is registered no operation removes it.   *)
C18_TablesStay ==
    [][ Registered(data_) \subseteq Registered(data_') ]_vars

(* C18 (amended): a registered table stays registered until the untyped   *)
(* erase_components() is called: no other operation removes a table       *)
(* (erase_components<T>() only empties T's table), while erase_components()*)
(* removes every table from data_.                                        *)
C18_TablesStayUntilEraseAll ==
    [][ /\ lastOp'.op # "erase_components"
            => Registered(data_) \subseteq Registered(data_')
        /\ lastOp'.op = "erase_components_of"
            => Registered(data_') = Registered(data_)
        /\ lastOp'.op = "erase_components"
            => Registered(data_') = {} ]_vars

\* erase_components() destroyed components and left no table registered
C18_Witness ==
    /\ lastOp.op = "erase_components"
    /\ lastOp.count >= 2
    /\ Registered(data_) = {}

(* C19: reserve_components<T>(n) registers T's table when it is missing   *)
(* and, for every n (0 and n below the number of components included),    *)
(* changes neither num_components<T>() nor the entities that have a T nor *)
(* any other table.                                                       *)
C19_Reserve ==
    [][ lastOp'.op = "reserve"
        => LET type == lastOp'.types[1]
           IN  /\ Registered(data_') = Registered(data_) \cup {type}
               /\ num_components(data_', type) = num_components(data_, type)
               /\ \A e \in AllEntities :
                     get_component_checked(data_', type, e)
                         = get_component_checked(data_, type, e)
               /\ OtherTablesSame(data_, data_', type) ]_vars

\* reserve_components<T>(n) was called with n below the number of T
\* components
C19_Witness ==
    /\ lastOp.op = "reserve"
    /\ lastOp.n = 1
    /\ num_components(data_, lastOp.types[1]) >= 2

(* C20: destroy_entity(e) leaves data_ as it was: every component bound   *)
(* to e is still returned by get_component_checked and still visited by   *)
(* for_each, and no other entity's component changes.                     *)
C20_DestroyKeepsComponents ==
    [][ lastOp'.op = "destroy_entity"
        => LET entity == lastOp'.entity
           IN  /\ data_' = data_
               /\ \A type \in Types :
                     has_component(data_, type, entity)
                     => /\ ~get_component_checked(data_', type, entity).null
                        /\ \A r \in for_each(data_', <<type>>) :
                              \E c \in 1..Len(r.calls) :
                                  r.calls[c].entity = entity
               /\ \A type \in Types, e \in AllEntities :
                     get_component_checked(data_', type, e)
                         = get_component_checked(data_, type, e) ]_vars

\* an entity create_entity returned, with a component of each type, was
\* destroyed
C20_Witness ==
    /\ lastOp.op = "destroy_entity"
    /\ ~is_bad_handle(lastOp.entity)
    /\ \A type \in Types : has_component(data_, type, lastOp.entity)

-----------------------------------------------------------------------------
(* C21: as long as the untyped erase_components() is not called, a        *)
(* ComponentView<Types...> is equivalent to for_each<Types...>: after any *)
(* sequence of bind, bind_or_assign, remove and erase_components<T>(),    *)
(* for_each<Types...> finds all its containers and view.for_each invokes  *)
(* the callback on the same rows in the same order (and has the same      *)
(* outcomes where get_first_key reads through end()).                     *)
C21_ViewEquivalent ==
    (view.types # <<>> /\ ~view.dangling)
    => /\ \A r \in for_each(data_, view.types) : r.entered
       /\ view_for_each(data_, view)
             = {[calls |-> r.calls, crashed |-> r.crashed] :
                    r \in for_each(data_, view.types)}
       /\ lastOp.op = "view_for_each"
             => \E r \in for_each(data_, view.types) :
                    r.calls = lastOp.calls /\ r.crashed = lastOp.crashed

\* a view over two types visited a row with two different components while
\* another entity has a component of one of the types only
C21_Witness ==
    /\ lastOp.op = "view_for_each"
    /\ Len(view.types) = 2
    /\ view.types[1] # view.types[2]
    /\ \E c \in 1..Len(lastOp.calls) :
           lastOp.calls[c].comps[1] # lastOp.calls[c].comps[2]
    /\ \E e \in AllEntities :
           has_component(data_, view.types[1], e)
               # has_component(data_, view.types[2], e)

\* C22: through any sequence of erase_type, copy and move construction, copy
\* and move assignment (a holder assigned to itself included), copy_from,
\* move_from and hold, inline or on the heap, no payload object is destroyed
\* twice, the holders in use designate different objects none of which is
\* destroyed, and once every holder is destroyed every payload object that
\* was constructed has been destroyed exactly once.
C22_DestroyedOnce ==
    /\ \A o \in 1..Len(objects) : objects[o].destructs <= 1
    /\ \A k \in Usable(holders) :
           /\ get_data_(holders, k) \in 1..Len(objects)
           /\ objects[get_data_(holders, k)].destructs = 0
           /\ \A j \in Usable(holders) :
                  get_data_(holders, j) = get_data_(holders, k) => j = k
    /\ (\A k \in Holders : holders[k].state # "alive")
           => \A o \in 1..Len(objects) : objects[o].destructs = 1

C22_Witness ==
    /\ ~small
    /\ \A k \in Holders : holders[k].state = "dead"
    /\ Len(objects) = MaxHolders
    /\ \E k \in Holders : get_data_(holders, k) # k

\* C23: erase_type<T>(value) leaves a holder whose get_as yields value; after
\* copy assignment, copy_from, move assignment or move_from the destination
\* yields the value the source held before, and after copy assignment or
\* copy_from the source still yields it; get_as returns the held value.
C23_RoundTrip ==
    /\ eLast.op = "erase_type"
           => get_as(small, holders, objects, eLast.dst) = {Read(eLast.arg)}
    /\ eLast.op \in {"copy_assign", "copy_from", "move_assign", "move_from"}
           => get_as(small, holders, objects, eLast.dst) = {Read(eLast.srcBefore)}
    /\ eLast.op \in {"copy_assign", "copy_from"}
           => get_as(small, holders, objects, eLast.src) = {Read(eLast.srcBefore)}
    /\ (eLast.op = "get_as" /\ eLast.emplaced)
           => get_as(small, holders, objects, eLast.dst)
                  = {Read(eLast.ret)}

C23_Witness ==
    /\ eLast.op = "copy_from"
    /\ eLast.dst # eLast.src
    /\ eLast.srcBefore = 1
    /\ ~small
    /\ get_data_(holders, eLast.dst) # eLast.dst

C25_PriorityOrder ==
    /\ \A i \in 1..Len(trace) : \A j \in (i + 1)..Len(trace) :
           /\ trace[i].priority >= trace[j].priority
           /\ trace[i].priority = trace[j].priority
                  => trace[i].handle < trace[j].handle
    /\ (sLast.op = "system_step" /\ sLast.stepDone
            /\ RunScript(sLast.script).loopChoice_ = "CONT")
           => \A h \in stepStart \cap registered :
                  \E i \in 1..Len(trace) : trace[i].handle = h

C25_Witness ==
    /\ Len(trace) = MaxSystems
    /\ trace[1].priority = 1
    /\ trace[Len(trace)].priority = 0
    /\ trace[1].handle > trace[Len(trace)].handle
    /\ sLast.op = "system_step"
    /\ sLast.stepDone

\* The option calls a system made in the last pass
Called(name) ==
    /\ sLast.op = "system_step"
    /\ \E i \in 1..Len(sLast.script) : sLast.script[i].call = name

ExitCodeCalled ==
    (CHOOSE i \in 1..Len(sLast.script) : sLast.script[i].call = "exit")

\* The last call was remove_system, from outside or from a system
RemoveCalled ==
    \/ sLast.op = "remove_system"
    \/ sLast.op = "system_step" /\ sLast.m.call = "remove_system"

\* C26: for every handle, the invalid constant included, remove_system
\* returns true exactly when the handle is that of a registered system;
\* a removed system is not stepped again and get_system of its handle
\* yields null.
C26_RemoveSystem ==
    /\ RemoveCalled => (sLast.ok <=> sLast.was)
    /\ sLast.op = "system_step" => ~sLast.stale
    /\ (sLast.op = "get_system" /\ ~sLast.was) => sLast.found = NoSystem

\* C27: when a system calls exit(code) in its step (and not skip_rest()
\* as well), step() returns (true, code) with that pass, stepping no later
\* system, and no run() stays in progress.
C27_ExitReturns ==
    (Called("exit") /\ ~Called("skip_rest"))
        => /\ sLast.stepDone
           /\ sLast.first
           /\ sLast.second = sLast.script[ExitCodeCalled].code
           /\ ~inRun

\* C28: when a system calls skip_rest() in its step (and not exit() as
\* well), step() returns (false, 0) with that pass and no later system is
\* stepped; the next step() begins at the front of the list.
C28_SkipRest ==
    /\ (Called("skip_rest") /\ ~Called("exit"))
           => /\ sLast.stepDone
              /\ ~sLast.first
              /\ sLast.second = 0
    /\ sLast.op \in {"step", "run_loop"} => sysIter \in {0, 1}

\* C29 (as stated): run() returns 0 once every system has been removed.
C29_RunReturnsZero ==
    (sLast.runDone /\ registered = {}) => sLast.code = 0

\* C29 (amended): a run() still in progress once every system has been
\* removed returns 0, on finding the list empty (a run() whose last step
\* both removed the last system and asked to exit has returned the code of
\* that exit instead).
C29_RunReturns ==
    (inRun /\ registered = {})
        ~> (~inRun /\ sLast.runDone /\ sLast.empty /\ sLast.code = 0)

C29_Witness ==
    /\ sLast.op = "run_loop"
    /\ sLast.runDone
    /\ sLast.code = 0
    /\ Cardinality(Removed) = MaxSystems

\* C30: send(x) calls observe(x) once for every connection in place when it
\* is called, in the order of the handles, and for nothing else: not for an
\* observer taken out by disconnect(handle) or by disconnect_all().
C30_SendReachesConnected ==
    pLast.op = "send"
        => /\ Len(pLast.calls) = Cardinality(pLast.before)
           /\ \A c \in pLast.before :
                  \E i \in 1..Len(pLast.calls) :
                      /\ pLast.calls[i].observer = c.observer
                      /\ pLast.calls[i].handle = c.handle
                      /\ pLast.calls[i].data = pLast.data
                      /\ \A j \in 1..Len(pLast.calls) :
                             pLast.calls[j].handle = c.handle => j = i
           /\ \A i \in 1..Len(pLast.calls) :
                  [observer |-> pLast.calls[i].observer,
                   handle |-> pLast.calls[i].handle] \in pLast.before

C30_Witness ==
    /\ pLast.op = "send"
    /\ Len(pLast.calls) = 2
    /\ [observer |-> "o1", by |-> "handle"] \in gone
    /\ [observer |-> "o2", by |-> "all"] \in gone
    /\ \A i \in 1..Len(pLast.calls) : pLast.calls[i].observer = "o2"

\* C31: a send calls every connection in place once, those whose observer
\* calls options.disconnect() included and whatever the others before or
\* after them do; afterwards the map holds exactly the connections that did
\* not ask to leave, so that a leaver is in no later send.
C31_DisconnectInsideObserve ==
    /\ DOMAIN observers_ = {c.handle : c \in connected}
    /\ \A c \in connected : observers_[c.handle] = c.observer
    /\ pLast.op = "send"
           => /\ \A c \in pLast.before :
                     Cardinality({i \in 1..Len(pLast.calls) :
                                      /\ pLast.calls[i].handle = c.handle
                                      /\ pLast.calls[i].observer = c.observer
                                      /\ pLast.calls[i].data = pLast.data}) = 1
              /\ \A i \in 1..Len(pLast.calls) :
                     pLast.calls[i].disconn_
                         <=> pLast.calls[i].handle \notin DOMAIN observers_

C31_Witness ==
    /\ pLast.op = "send"
    /\ Len(pLast.calls) = 2
    /\ pLast.calls[1].disconn_
    /\ ~pLast.calls[2].disconn_
    /\ [observer |-> "o1", by |-> "options"] \in gone
    /\ \A i \in 1..Len(pLast.calls) : pLast.calls[i].observer = "o2"

\* C40 (as stated): a handle obtained before disconnect_all() never
\* disconnects an observer connected after it.
C40_StaleHandleHarmless ==
    (pLast.op = "disconnect" /\ pLast.old) => connected = pLast.before

\* C40 (amended): disconnect(h) takes out the connection in place under h,
\* if there is one, and no other; the handles of the connections in place
\* are distinct.  disconnect_all() restarts the handles at the first valid
\* one, so a handle obtained before it is the handle of a connection made
\* after it, and disconnecting with it takes that connection out.
C40_DisconnectByHandle ==
    /\ \A c \in connected : \A d \in connected :
           c.handle = d.handle => c = d
    /\ pLast.op = "disconnect"
           => /\ connected = {c \in pLast.before : c.handle # pLast.handle}
              /\ DOMAIN observers_
                     = {c.handle : c \in pLast.before} \ {pLast.handle}
    /\ pLast.op = "disconnect_all" => pipeGen_ = get_first_valid_handle
    /\ (pLast.op = "connect" /\ pLast.before = {} /\ earlier > 0
            /\ pipeGen_ = get_first_valid_handle + 1)
           => pLast.handle \in 1..earlier

C40_Witness ==
    /\ pLast.op = "disconnect"
    /\ pLast.old
    /\ connected # pLast.before
    /\ connected # {}

\* The last pass ended a step() call that ran to the end of the list
StepRanToEnd ==
    /\ sLast.stepDone
    /\ \/ sLast.op = "erase_removed"
       \/ /\ sLast.op = "system_step"
          /\ \/ RunScript(sLast.script).shouldRemove_
             \/ RunScript(sLast.script).loopChoice_ = "CONT"

\* The handles stepped by the current step() call
Stepped == {trace[i].handle : i \in 1..Len(trace)}

C39_RequestsIndependent ==
    /\ (Called("remove_me") /\ Called("exit") /\ ~Called("skip_rest"))
           => /\ sLast.stepDone
              /\ sLast.first
              /\ sLast.second = sLast.script[ExitCodeCalled].code
    /\ (Called("remove_me") /\ Called("skip_rest") /\ ~Called("exit"))
           => /\ sLast.stepDone
              /\ ~sLast.first
              /\ sLast.second = 0
    /\ Called("remove_me") => sLast.handle \notin registered

=============================================================================
